---- MODULE Spec2Model ----
(***************************************************************************)
(* Booking / payment-proof workflow of the IkLearnEdge tutoring backend.   *)
(* The relational store is modelled table by table (committed rows only);  *)
(* every route handler is one action, except the handlers that run inside  *)
(* transaction(callback), which are modelled statement by statement on a   *)
(* pooled client whose writes stay private until COMMIT.                   *)
(***************************************************************************)
EXTENDS Integers, Sequences, FiniteSets, TLC

VARIABLES users, students, teachers, subjects, subject_seq, availability,
          availability_seq, pricing_tiers, pricing_seq, bookings, booking_seq,
          payment_proofs, proof_seq, clients, resp, edits, calls, request

vars == <<users, students, teachers, subjects, subject_seq, availability,
          availability_seq, pricing_tiers, pricing_seq, bookings, booking_seq,
          payment_proofs, proof_seq, clients, resp, edits, calls, request>>

db == <<users, students, teachers, subjects, availability, pricing_tiers,
       bookings, payment_proofs>>

(***************************************************************************)
(* Bounds of the exploration.                                              *)
(***************************************************************************)
MaxBookings == 1
MaxProofs == 2
MaxTiers == 2
MaxEdits == 1
MaxSlots == 2
MaxSubjects == 1
MaxCalls == 2

(***************************************************************************)
(* Value domains.                                                          *)
(***************************************************************************)
Roles == {"admin", "teacher", "student"}
BookingStatuses == {"pending_payment", "payment_under_review", "confirmed",
                    "completed", "cancelled"}
ProofStatuses == {"pending", "approved", "rejected"}
Grades == {"Grade 1-5 (Primary)", "Grade 6-8 (Middle)"}

UserIds == 1..5
SubjectIds == {1, 6}
\* price_per_hour is DECIMAL(10,2): prices are kept in hundredths
Prices == {1500, 1800}
MinDuration == 30
MaxDuration == 240

\* request inputs
StatusInputs == BookingStatuses \cup {"archived"}
DecisionInputs == {"approved", "rejected", "pending"}

\* the pooled clients that are explored (the pool holds up to five)
Clients == {1, 2}

(***************************************************************************)
(* Helpers over tables.  A table is a function from the ids of its rows.   *)
(***************************************************************************)
NoResp == [op |-> "none", caller |-> 0, code |-> 0, id |-> 0, arg |-> "",
           data |-> <<>>]

Response(op, caller, code, id, arg, data) ==
  [op |-> op, caller |-> caller, code |-> code, id |-> id, arg |-> arg,
   data |-> data]

Without(f, ks) == [k \in (DOMAIN f) \ ks |-> f[k]]

Extend(f, k, v) == [x \in (DOMAIN f) \cup {k} |-> IF x = k THEN v ELSE f[x]]

\* a pooled client that is not running a transaction
IdleClient == [op |-> "idle", pc |-> "idle", caller |-> 0, id |-> 0,
               arg |-> "", bookingId |-> 0, todo |-> <<>>,
               proofIns |-> <<>>, proofUpd |-> <<>>, bookingUpd |-> <<>>,
               tierDel |-> {}, tierIns |-> <<>>, subjectIns |-> <<>>,
               availDel |-> {}, availIns |-> <<>>]

\* no request is passing through the middleware chain of a route
NoRequest == [stage |-> "idle", credential |-> <<>>, guard |-> "none",
              user |-> 0, role |-> "", trace |-> <<>>]

\* a pooled client on which no call of transaction(callback) has run yet:
\* the statements issued on it, the number of release() calls, whether the
\* callback completed, the error caught, and what the caller received
NoCall == [pc |-> "idle", n |-> 0, acquired |-> FALSE, log |-> <<>>,
           released |-> 0, completed |-> FALSE, error |-> "none",
           pending |-> "none", outcome |-> "none"]

\* 'SELECT id FROM students WHERE user_id = $1'
StudentRows(u) == {s \in DOMAIN students : students[s].user_id = u}

\* 'SELECT id FROM teachers WHERE user_id = $1'
TeacherRows(u) == {t \in DOMAIN teachers : teachers[t].user_id = u}

\* rows[0] of a result set (the models keep at most one profile per user)
\* 'SELECT price_per_hour FROM pricing_tiers WHERE subject_id = $1 AND grade_level = $2'
TierRows(subjectId, gradeLevel) ==
  {k \in DOMAIN pricing_tiers : /\ pricing_tiers[k].subject_id = subjectId
                                /\ pricing_tiers[k].grade_level = gradeLevel}

FirstRow(rows) == CHOOSE r \in rows : \A q \in rows : r <= q

(***************************************************************************)
(* middleware/auth.js                                                      *)
(***************************************************************************)
\* the token's user is still in the users table
authenticate(u) == u \in DOMAIN users

\* mutant of requireAdmin: every role passes
requireAnyRole(u) == users[u] \in Roles

requireAdmin(u) == users[u] = "admin"

requireStudent(u) == users[u] = "student"

requireTeacher(u) == users[u] = "teacher"

(***************************************************************************)
(* Initial state: the schema's seed rows for the modelled subjects and     *)
(* grades, plus registered users with their role profiles.                 *)
(***************************************************************************)
\* the pricing seed inserts 38 rows; the model follows the first two
SeededTiers == 38

TierRow(subjectId, gradeLevel, pricePerHour) ==
  [subject_id |-> subjectId, grade_level |-> gradeLevel,
   price_per_hour |-> pricePerHour]

SeedPricing ==
  <<TierRow(1, "Grade 1-5 (Primary)", 1500), TierRow(1, "Grade 6-8 (Middle)", 1800)>>

\* the subjects seed inserts nine rows; the model follows Math and IELTS
SeededSubjects == 9

SeedSubjects == [s \in SubjectIds |-> [is_active |-> TRUE]]

RegisteredUsers ==
  [u \in UserIds |-> IF u = 1 THEN "admin"
                     ELSE IF u \in {2, 3} THEN "student" ELSE "teacher"]

RegisteredStudents ==
  [s \in {1, 2} |-> [user_id |-> s + 1,
                     grade_level |-> IF s = 1 THEN "Grade 6-8 (Middle)"
                                     ELSE "Grade 1-5 (Primary)"]]

RegisteredTeachers ==
  [t \in {1, 2} |-> [user_id |-> t + 3, verification_status |-> "pending",
                     is_live |-> FALSE, meeting_link |-> ""]]

Init ==
  /\ users = RegisteredUsers
  /\ students = RegisteredStudents
  /\ teachers = RegisteredTeachers
  /\ subjects = SeedSubjects
  /\ subject_seq = SeededSubjects
  /\ availability = <<>>
  /\ availability_seq = 0
  /\ pricing_tiers = SeedPricing
  /\ pricing_seq = SeededTiers
  /\ bookings = <<>>
  /\ booking_seq = 0
  /\ payment_proofs = <<>>
  /\ proof_seq = 0
  /\ clients = [c \in Clients |-> IdleClient]
  /\ resp = NoResp
  /\ edits = 0
  /\ calls = [c \in Clients |-> NoCall]
  /\ request = NoRequest

(***************************************************************************)
(* Row locks: an UPDATE waits while another client's open transaction has  *)
(* written the same row.                                                   *)
(***************************************************************************)
BookingLocked(b, me) ==
  \E c \in Clients : c # me /\ b \in DOMAIN clients[c].bookingUpd

ProofLocked(p, me) ==
  \E c \in Clients : c # me /\ p \in DOMAIN clients[c].proofUpd

(***************************************************************************)
(* routes/bookings                                                         *)
(***************************************************************************)
\* Math.round(n / d) for d > 0: the nearest integer, halves towards +infinity
\* mutant of MathRound: truncation
MathFloor(n, d) == n \div d

MathRound(n, d) == (2 * n + d) \div (2 * d)

\* Math.round((pricePerHour * duration) / 60), the price being in hundredths
TotalAmount(pricePerHour, duration) == MathRound(pricePerHour * duration, 6000)

BookingRow(studentId, teacherId, subjectId, gradeLevel, duration, pricePerHour) ==
  [student_id |-> studentId, teacher_id |-> teacherId, subject_id |-> subjectId,
   grade_level |-> gradeLevel, duration |-> duration,
   price_per_hour |-> pricePerHour,
   total_amount |-> TotalAmount(pricePerHour, duration),
   status |-> "pending_payment"]

\* POST /api/bookings
CreateBooking(u, teacherId, subjectId, duration) ==
  LET R(code, id) == Response("CreateBooking", u, code, id, "", <<teacherId, subjectId, duration>>)
      studentId == FirstRow(StudentRows(u))
      gradeLevel == students[studentId].grade_level
      pricePerHour == pricing_tiers[FirstRow(TierRows(subjectId, gradeLevel))].price_per_hour
  IN
  /\ UNCHANGED <<users, students, teachers, subjects, subject_seq,
                 availability, availability_seq, pricing_tiers, pricing_seq,
                 payment_proofs, proof_seq, clients, edits, calls, request>>
  /\ IF ~authenticate(u)
       THEN resp' = R(401, 0) /\ UNCHANGED <<bookings, booking_seq>>
     ELSE IF ~requireStudent(u)
       THEN resp' = R(403, 0) /\ UNCHANGED <<bookings, booking_seq>>
     ELSE IF duration < MinDuration \/ duration > MaxDuration
       THEN resp' = R(400, 0) /\ UNCHANGED <<bookings, booking_seq>>
     ELSE IF StudentRows(u) = {}
       THEN resp' = R(404, 0) /\ UNCHANGED <<bookings, booking_seq>>
     ELSE IF TierRows(subjectId, gradeLevel) = {}
       THEN resp' = R(400, 0) /\ UNCHANGED <<bookings, booking_seq>>
     ELSE /\ booking_seq' = booking_seq + 1
          /\ IF teacherId \notin DOMAIN teachers
               \* bookings.teacher_id REFERENCES teachers(id): the insert fails
               THEN resp' = R(500, 0) /\ UNCHANGED bookings
               ELSE /\ bookings' = Extend(bookings, booking_seq + 1,
                                     BookingRow(studentId, teacherId, subjectId,
                                                gradeLevel, duration, pricePerHour))
                    /\ resp' = R(201, booking_seq + 1)

\* mutant of StatusForbidden: the final "neither student nor teacher of the
\* booking" check is missing
StatusForbiddenPartiesOnly(u, id, status) ==
  LET isStudent == StudentRows(u) # {}
                   /\ FirstRow(StudentRows(u)) = bookings[id].student_id
      isTeacher == TeacherRows(u) # {}
                   /\ FirstRow(TeacherRows(u)) = bookings[id].teacher_id
  IN users[u] # "admin"
     /\ \/ isStudent /\ status # "cancelled"
        \/ isTeacher /\ status \notin {"confirmed", "completed"}

\* the authorization block of PUT /api/bookings/:id/status
StatusForbidden(u, id, status) ==
  LET isStudent == StudentRows(u) # {}
                   /\ FirstRow(StudentRows(u)) = bookings[id].student_id
      isTeacher == TeacherRows(u) # {}
                   /\ FirstRow(TeacherRows(u)) = bookings[id].teacher_id
  IN users[u] # "admin"
     /\ \/ isStudent /\ status # "cancelled"
        \/ isTeacher /\ status \notin {"confirmed", "completed"}
        \/ ~isStudent /\ ~isTeacher

\* PUT /api/bookings/:id/status
\* mutant of UpdateBookingStatus: the status is not compared with validStatuses
UpdateBookingStatusUnvalidated(u, id, status) ==
  LET R(code) == Response("UpdateBookingStatus", u, code, id, status, <<>>)
  IN
  /\ UNCHANGED <<users, students, teachers, subjects, subject_seq,
                 availability, availability_seq, pricing_tiers, pricing_seq,
                 booking_seq, payment_proofs, proof_seq, clients, edits,
                 calls, request>>
  /\ IF ~authenticate(u)
       THEN resp' = R(401) /\ UNCHANGED bookings
     ELSE IF id \notin DOMAIN bookings
       THEN resp' = R(404) /\ UNCHANGED bookings
     ELSE IF StatusForbidden(u, id, status)
       THEN resp' = R(403) /\ UNCHANGED bookings
     ELSE /\ ~BookingLocked(id, 0)
          /\ bookings' = [bookings EXCEPT ![id].status = status]
          /\ resp' = R(200)

\* mutant of UpdateBookingStatus: the UPDATE has no WHERE id = $2
UpdateBookingStatusEveryRow(u, id, status) ==
  LET R(code) == Response("UpdateBookingStatus", u, code, id, status, <<>>)
  IN
  /\ UNCHANGED <<users, students, teachers, subjects, subject_seq,
                 availability, availability_seq, pricing_tiers, pricing_seq,
                 booking_seq, payment_proofs, proof_seq, clients, edits,
                 calls, request>>
  /\ IF ~authenticate(u)
       THEN resp' = R(401) /\ UNCHANGED bookings
     ELSE IF status \notin BookingStatuses
       THEN resp' = R(400) /\ UNCHANGED bookings
     ELSE IF id \notin DOMAIN bookings
       THEN resp' = R(404) /\ UNCHANGED bookings
     ELSE IF StatusForbidden(u, id, status)
       THEN resp' = R(403) /\ UNCHANGED bookings
     ELSE /\ \A b \in DOMAIN bookings : ~BookingLocked(b, 0)
          /\ bookings' = [b \in DOMAIN bookings |->
                            [bookings[b] EXCEPT !.status = status]]
          /\ resp' = R(200)

\* mutant of UpdateBookingStatus: completed is accepted only for a booking
\* whose current status is confirmed
UpdateBookingStatusFromConfirmed(u, id, status) ==
  LET R(code) == Response("UpdateBookingStatus", u, code, id, status, <<>>)
  IN
  /\ UNCHANGED <<users, students, teachers, subjects, subject_seq,
                 availability, availability_seq, pricing_tiers, pricing_seq,
                 booking_seq, payment_proofs, proof_seq, clients, edits,
                 calls, request>>
  /\ IF ~authenticate(u)
       THEN resp' = R(401) /\ UNCHANGED bookings
     ELSE IF status \notin BookingStatuses
       THEN resp' = R(400) /\ UNCHANGED bookings
     ELSE IF id \notin DOMAIN bookings
       THEN resp' = R(404) /\ UNCHANGED bookings
     ELSE IF StatusForbidden(u, id, status)
       THEN resp' = R(403) /\ UNCHANGED bookings
     ELSE IF status = "completed" /\ bookings[id].status # "confirmed"
       THEN resp' = R(400) /\ UNCHANGED bookings
     ELSE /\ ~BookingLocked(id, 0)
          /\ bookings' = [bookings EXCEPT ![id].status = status]
          /\ resp' = R(200)

UpdateBookingStatus(u, id, status) ==
  LET R(code) == Response("UpdateBookingStatus", u, code, id, status, <<>>)
  IN
  /\ UNCHANGED <<users, students, teachers, subjects, subject_seq,
                 availability, availability_seq, pricing_tiers, pricing_seq,
                 booking_seq, payment_proofs, proof_seq, clients, edits,
                 calls, request>>
  /\ IF ~authenticate(u)
       THEN resp' = R(401) /\ UNCHANGED bookings
     ELSE IF status \notin BookingStatuses
       THEN resp' = R(400) /\ UNCHANGED bookings
     ELSE IF id \notin DOMAIN bookings
       THEN resp' = R(404) /\ UNCHANGED bookings
     ELSE IF StatusForbidden(u, id, status)
       THEN resp' = R(403) /\ UNCHANGED bookings
     ELSE /\ ~BookingLocked(id, 0)
          /\ bookings' = [bookings EXCEPT ![id].status = status]
          /\ resp' = R(200)

\* ORDER BY created_at DESC over a set of booking ids (ids grow with time)
RECURSIVE NewestFirst(_)
NewestFirst(S) ==
  IF S = {} THEN <<>>
  ELSE LET m == CHOOSE x \in S : \A y \in S : y <= x
       IN <<m>> \o NewestFirst(S \ {m})

\* JOIN teachers t, users tu, students s, users su, subjects sub
Joined(b) ==
  /\ bookings[b].teacher_id \in DOMAIN teachers
  /\ teachers[bookings[b].teacher_id].user_id \in DOMAIN users
  /\ bookings[b].student_id \in DOMAIN students
  /\ students[bookings[b].student_id].user_id \in DOMAIN users
  /\ bookings[b].subject_id \in DOMAIN subjects

\* GET /api/bookings
GetBookings(u) ==
  LET R(code, data) == Response("GetBookings", u, code, 0, "", data)
  IN
  /\ UNCHANGED <<users, students, teachers, subjects, subject_seq,
                 availability, availability_seq, pricing_tiers, pricing_seq,
                 bookings, booking_seq, payment_proofs, proof_seq, clients,
                 edits, calls, request>>
  /\ IF ~authenticate(u)
       THEN resp' = R(401, <<>>)
     ELSE IF users[u] = "student"
       THEN IF StudentRows(u) = {}
              THEN resp' = R(404, <<>>)
              ELSE resp' = R(200, NewestFirst(
                     {b \in DOMAIN bookings :
                        /\ bookings[b].student_id = FirstRow(StudentRows(u))
                        /\ Joined(b)}))
     ELSE IF users[u] = "teacher"
       THEN IF TeacherRows(u) = {}
              THEN resp' = R(404, <<>>)
              ELSE resp' = R(200, NewestFirst(
                     {b \in DOMAIN bookings :
                        /\ bookings[b].teacher_id = FirstRow(TeacherRows(u))
                        /\ Joined(b)}))
     ELSE resp' = R(403, <<>>)

\* mutant of ViewForbidden: any holder of a profile passes, whoever the
\* booking's parties are
ViewForbiddenWithoutProfile(u, id) ==
  users[u] # "admin" /\ StudentRows(u) = {} /\ TeacherRows(u) = {}

\* the authorization block of GET /api/bookings/:id
ViewForbidden(u, id) ==
  LET isStudent == StudentRows(u) # {}
                   /\ FirstRow(StudentRows(u)) = bookings[id].student_id
      isTeacher == TeacherRows(u) # {}
                   /\ FirstRow(TeacherRows(u)) = bookings[id].teacher_id
  IN users[u] # "admin" /\ ~isStudent /\ ~isTeacher

\* GET /api/bookings/:id
GetBookingById(u, id) ==
  LET R(code, data) == Response("GetBookingById", u, code, id, "", data)
  IN
  /\ UNCHANGED <<users, students, teachers, subjects, subject_seq,
                 availability, availability_seq, pricing_tiers, pricing_seq,
                 bookings, booking_seq, payment_proofs, proof_seq, clients,
                 edits, calls, request>>
  /\ IF ~authenticate(u)
       THEN resp' = R(401, <<>>)
     ELSE IF ~(id \in DOMAIN bookings /\ Joined(id))
       THEN resp' = R(404, <<>>)
     ELSE IF ViewForbidden(u, id)
       THEN resp' = R(403, <<>>)
     ELSE resp' = R(200, <<id>>)

(***************************************************************************)
(* routes/students, routes/admin                                           *)
(***************************************************************************)
\* PUT /api/students/profile (gradeLevel is the only modelled field)
\* mutant of UpdateStudentProfile: the new grade is also written to the
\* student's bookings
UpdateStudentProfileAndBookings(u, gradeLevel) ==
  LET R(code) == Response("UpdateStudentProfile", u, code, 0, gradeLevel, <<>>)
      ok == /\ authenticate(u) /\ requireStudent(u)
            /\ StudentRows(u) # {} /\ gradeLevel # "undefined"
  IN
  /\ UNCHANGED <<users, teachers, subjects, subject_seq, availability,
                 availability_seq, pricing_tiers, pricing_seq, booking_seq,
                 payment_proofs, proof_seq, clients, edits, calls, request>>
  /\ IF ~ok
       THEN /\ resp' = R(IF ~authenticate(u) THEN 401
                         ELSE IF ~requireStudent(u) THEN 403
                         ELSE IF StudentRows(u) = {} THEN 404 ELSE 400)
            /\ UNCHANGED <<students, bookings>>
       ELSE /\ students' = [students EXCEPT
                              ![FirstRow(StudentRows(u))].grade_level = gradeLevel]
            /\ bookings' = [b \in DOMAIN bookings |->
                              IF bookings[b].student_id = FirstRow(StudentRows(u))
                                THEN [bookings[b] EXCEPT !.grade_level = gradeLevel]
                                ELSE bookings[b]]
            /\ resp' = R(200)

UpdateStudentProfile(u, gradeLevel) ==
  LET R(code) == Response("UpdateStudentProfile", u, code, 0, gradeLevel, <<>>)
  IN
  /\ UNCHANGED <<users, teachers, subjects, subject_seq, availability,
                 availability_seq, pricing_tiers, pricing_seq, bookings,
                 booking_seq, payment_proofs, proof_seq, clients, edits,
                 calls, request>>
  /\ IF ~authenticate(u)
       THEN resp' = R(401) /\ UNCHANGED students
     ELSE IF ~requireStudent(u)
       THEN resp' = R(403) /\ UNCHANGED students
     ELSE IF StudentRows(u) = {}
       THEN resp' = R(404) /\ UNCHANGED students
     ELSE IF gradeLevel = "undefined"
       THEN resp' = R(400) /\ UNCHANGED students
     ELSE /\ students' = [students EXCEPT
                            ![FirstRow(StudentRows(u))].grade_level = gradeLevel]
          /\ resp' = R(200)

\* PUT /api/admin/users/:id with a role in the body
AdminUpdateUser(u, id, role) ==
  LET R(code) == Response("AdminUpdateUser", u, code, id, role, <<>>)
  IN
  /\ UNCHANGED <<students, teachers, subjects, subject_seq, availability,
                 availability_seq, pricing_tiers, pricing_seq, bookings,
                 booking_seq, payment_proofs, proof_seq, clients>>
  /\ IF ~authenticate(u)
       THEN resp' = R(401) /\ UNCHANGED <<users, edits, calls, request>>
     ELSE IF ~requireAdmin(u)
       THEN resp' = R(403) /\ UNCHANGED <<users, edits, calls, request>>
     ELSE IF id \notin DOMAIN users
       THEN resp' = R(404) /\ UNCHANGED <<users, edits, calls, request>>
     ELSE IF role \notin Roles
       \* CHECK (role IN ('admin', 'teacher', 'student'))
       THEN resp' = R(500) /\ UNCHANGED <<users, edits, calls, request>>
     ELSE /\ edits' = edits + 1 /\ UNCHANGED <<calls, request>>
          /\ users' = [users EXCEPT ![id] = role]
          /\ resp' = R(200)

\* a bookings row references a profile of user id (no ON DELETE action)
Referenced(id) ==
  \E b \in DOMAIN bookings :
     \/ bookings[b].student_id \in StudentRows(id)
     \/ bookings[b].teacher_id \in TeacherRows(id)

\* DELETE /api/admin/users/:id
\* mutant of AdminDeleteUser: the bookings of the deleted student or teacher
\* are deleted with the profile (ON DELETE CASCADE on bookings)
AdminDeleteUserCascading(u, id) ==
  LET R(code) == Response("AdminDeleteUser", u, code, id, "", <<>>)
      ok == authenticate(u) /\ requireAdmin(u) /\ id \in DOMAIN users
  IN
  /\ UNCHANGED <<pricing_tiers, pricing_seq, booking_seq, payment_proofs,
                 proof_seq, clients, subjects, subject_seq, availability_seq>>
  /\ IF ~ok
       THEN /\ resp' = R(IF ~authenticate(u) THEN 401
                         ELSE IF ~requireAdmin(u) THEN 403 ELSE 404)
            /\ UNCHANGED <<users, students, teachers, availability, bookings,
                           edits, calls, request>>
       ELSE /\ edits' = edits + 1 /\ UNCHANGED <<calls, request>>
            /\ users' = Without(users, {id})
            /\ students' = Without(students, StudentRows(id))
            /\ teachers' = Without(teachers, TeacherRows(id))
            /\ availability' = Without(availability,
                   {a \in DOMAIN availability :
                      availability[a].teacher_id \in TeacherRows(id)})
            /\ bookings' = Without(bookings,
                   {b \in DOMAIN bookings :
                      \/ bookings[b].student_id \in StudentRows(id)
                      \/ bookings[b].teacher_id \in TeacherRows(id)})
            /\ resp' = R(200)

AdminDeleteUser(u, id) ==
  LET R(code) == Response("AdminDeleteUser", u, code, id, "", <<>>)
  IN
  /\ UNCHANGED <<pricing_tiers, pricing_seq, bookings, booking_seq,
                 payment_proofs, proof_seq, clients>>
  /\ IF ~authenticate(u)
       THEN resp' = R(401) /\ UNCHANGED <<users, students, teachers, subjects,
                                          subject_seq, availability,
                                          availability_seq, edits, calls,
                                          request>>
     ELSE IF ~requireAdmin(u)
       THEN resp' = R(403) /\ UNCHANGED <<users, students, teachers, subjects,
                                          subject_seq, availability,
                                          availability_seq, edits, calls,
                                          request>>
     ELSE IF id \notin DOMAIN users
       THEN resp' = R(404) /\ UNCHANGED <<users, students, teachers, subjects,
                                          subject_seq, availability,
                                          availability_seq, edits, calls,
                                          request>>
     ELSE IF Referenced(id)
       THEN resp' = R(500) /\ UNCHANGED <<users, students, teachers, subjects,
                                          subject_seq, availability,
                                          availability_seq, edits, calls,
                                          request>>
     ELSE /\ edits' = edits + 1 /\ UNCHANGED <<calls, request>>
          /\ users' = Without(users, {id})
          /\ students' = Without(students, StudentRows(id))
          /\ teachers' = Without(teachers, TeacherRows(id))
          \* availability.teacher_id REFERENCES teachers(id) ON DELETE CASCADE
          /\ availability' = Without(availability,
                 {a \in DOMAIN availability :
                    availability[a].teacher_id \in TeacherRows(id)})
          /\ UNCHANGED <<subjects, subject_seq, availability_seq>>
          /\ resp' = R(200)

(***************************************************************************)
(* models/database.js: transaction(callback).  A client that has run BEGIN *)
(* collects its writes; COMMIT installs all of them, ROLLBACK none.        *)
(***************************************************************************)
\* BEGIN on a client taken from the pool
Begin(op, u, id, arg) ==
  [IdleClient EXCEPT !.op = op, !.caller = u, !.id = id, !.arg = arg]

\* the tables after COMMIT of client record t
CommitProofs(t) ==
  LET inserted == [p \in (DOMAIN payment_proofs) \cup (DOMAIN t.proofIns) |->
                     IF p \in DOMAIN t.proofIns THEN t.proofIns[p]
                     ELSE payment_proofs[p]]
  IN [p \in DOMAIN inserted |->
        IF p \in DOMAIN t.proofUpd
          THEN [inserted[p] EXCEPT !.status = t.proofUpd[p]]
          ELSE inserted[p]]

CommitBookings(t) ==
  [b \in DOMAIN bookings |->
     IF b \in DOMAIN t.bookingUpd
       THEN [bookings[b] EXCEPT !.status = t.bookingUpd[b]]
       ELSE bookings[b]]

CommitSubjects(t) ==
  [k \in (DOMAIN subjects) \cup (DOMAIN t.subjectIns) |->
     IF k \in DOMAIN t.subjectIns THEN t.subjectIns[k] ELSE subjects[k]]

CommitAvailability(t) ==
  LET kept == Without(availability, t.availDel)
  IN [k \in (DOMAIN kept) \cup (DOMAIN t.availIns) |->
        IF k \in DOMAIN t.availIns THEN t.availIns[k] ELSE kept[k]]

CommitTiers(t) ==
  LET kept == Without(pricing_tiers, t.tierDel)
  IN [k \in (DOMAIN kept) \cup (DOMAIN t.tierIns) |->
        IF k \in DOMAIN t.tierIns THEN t.tierIns[k] ELSE kept[k]]

SuccessCode(op) == IF op \in {"SubmitPaymentProof", "CreateSubject"} THEN 201 ELSE 200

\* COMMIT, release, and the handler's success response
Commit(c) ==
  LET t == clients[c]
  IN /\ t.pc = "commit"
     /\ payment_proofs' = CommitProofs(t)
     /\ bookings' = CommitBookings(t)
     /\ pricing_tiers' = CommitTiers(t)
     /\ subjects' = CommitSubjects(t)
     /\ availability' = CommitAvailability(t)
     /\ clients' = [clients EXCEPT ![c] = IdleClient]
     /\ resp' = Response(t.op, t.caller, SuccessCode(t.op), t.id, t.arg,
                         <<t.bookingId>>)
     /\ UNCHANGED <<users, students, teachers, subject_seq, availability_seq,
                    pricing_seq, booking_seq, proof_seq, edits, calls,
                    request>>

\* mutant of Rollback: the catch block answers 500 without ROLLBACK, and the
\* writes of the open transaction end up installed
RollbackKeepsWrites(c) ==
  LET t == clients[c]
  IN /\ payment_proofs' = CommitProofs(t)
     /\ bookings' = CommitBookings(t)
     /\ pricing_tiers' = CommitTiers(t)
     /\ clients' = [clients EXCEPT ![c] = IdleClient]
     /\ resp' = Response(t.op, t.caller, 500, t.id, t.arg, <<>>)
     /\ UNCHANGED <<users, students, teachers, subjects, subject_seq,
                    availability, availability_seq, pricing_seq, booking_seq,
                    proof_seq, edits, calls, request>>

\* catch: ROLLBACK, rethrow, release; the handler answers 500
Rollback(c) ==
  LET t == clients[c]
  IN /\ clients' = [clients EXCEPT ![c] = IdleClient]
     /\ resp' = Response(t.op, t.caller, 500, t.id, t.arg, <<>>)
     /\ UNCHANGED <<users, students, teachers, subjects, subject_seq,
                    availability, availability_seq, pricing_tiers,
                    pricing_seq, bookings, booking_seq, payment_proofs,
                    proof_seq, edits, calls, request>>

\* a statement of an open transaction (COMMIT included) throws
Fail(c) ==
  /\ clients[c].op # "idle"
  /\ Rollback(c)

(***************************************************************************)
(* models/database.js: transaction(callback) statement by statement.  Each *)
(* awaited call either resolves (ok) or rejects with its own error.        *)
(***************************************************************************)
\* the tables, sequences and handlers' transactions, which these steps do
\* not look at
handlers == <<users, students, teachers, subjects, subject_seq, availability,
              availability_seq, pricing_tiers, pricing_seq, bookings,
              booking_seq, payment_proofs, proof_seq, clients, resp, edits,
              request>>

\* 'const client = await pool.connect()', before the try block
transactionConnect(c, ok) ==
  LET t == calls[c]
  IN /\ t.pc \in {"idle", "ended"}
     /\ calls' = [calls EXCEPT ![c] =
          IF ok THEN [NoCall EXCEPT !.pc = "begin", !.n = t.n + 1,
                                    !.acquired = TRUE]
                ELSE [NoCall EXCEPT !.pc = "ended", !.n = t.n + 1,
                                    !.outcome = "connect"]]
     /\ UNCHANGED handlers

\* await client.query('BEGIN')
transactionBegin(c, ok) ==
  LET t == calls[c]
  IN /\ t.pc = "begin"
     /\ calls' = [calls EXCEPT ![c] =
          IF ok THEN [t EXCEPT !.pc = "callback", !.log = Append(t.log, "BEGIN")]
                ELSE [t EXCEPT !.pc = "catch", !.log = Append(t.log, "BEGIN"),
                               !.error = "BEGIN"]]
     /\ UNCHANGED handlers

\* const result = await callback(client)
transactionCallback(c, ok) ==
  LET t == calls[c]
  IN /\ t.pc = "callback"
     /\ calls' = [calls EXCEPT ![c] =
          IF ok THEN [t EXCEPT !.pc = "commit", !.completed = TRUE]
                ELSE [t EXCEPT !.pc = "catch", !.error = "callback"]]
     /\ UNCHANGED handlers

\* await client.query('COMMIT'); return result
transactionCommit(c, ok) ==
  LET t == calls[c]
  IN /\ t.pc = "commit"
     /\ calls' = [calls EXCEPT ![c] =
          IF ok THEN [t EXCEPT !.pc = "finally", !.log = Append(t.log, "COMMIT"),
                               !.pending = "returned"]
                ELSE [t EXCEPT !.pc = "catch", !.log = Append(t.log, "COMMIT"),
                               !.error = "COMMIT"]]
     /\ UNCHANGED handlers

\* catch (error) { await client.query('ROLLBACK'); throw error; }: when the
\* ROLLBACK rejects, its error leaves the catch block and 'throw error' is
\* not reached
transactionRollback(c, ok) ==
  LET t == calls[c]
  IN /\ t.pc = "catch"
     /\ calls' = [calls EXCEPT ![c] =
          [t EXCEPT !.pc = "finally", !.log = Append(t.log, "ROLLBACK"),
                    !.pending = IF ok THEN t.error ELSE "ROLLBACK"]]
     /\ UNCHANGED handlers

\* finally { client.release(); }, then the pending return or throw reaches
\* the caller
transactionRelease(c) ==
  LET t == calls[c]
  IN /\ t.pc = "finally"
     /\ calls' = [calls EXCEPT ![c] =
          [t EXCEPT !.pc = "ended", !.released = t.released + 1,
                    !.outcome = t.pending]]
     /\ UNCHANGED handlers

(***************************************************************************)
(* routes/payments                                                         *)
(***************************************************************************)
\* 'ORDER BY pp.uploaded_at ASC': uploaded_at is the time of the proof's
\* INSERT, and proofs are inserted in the order of their ids
RECURSIVE OldestFirst(_)
OldestFirst(S) ==
  IF S = {} THEN <<>>
  ELSE LET m == CHOOSE x \in S : \A y \in S : x <= y
       IN <<m>> \o OldestFirst(S \ {m})

\* the rows of payment_proofs that survive the JOINs of the list queries
JoinedProof(p) ==
  /\ payment_proofs[p].booking_id \in DOMAIN bookings
  /\ Joined(payment_proofs[p].booking_id)

\* mutant of ListPendingPayments: ORDER BY pp.uploaded_at DESC
ListPendingPaymentsNewestFirst(u) ==
  LET R(code, data) == Response("ListPendingPayments", u, code, 0, "", data)
  IN
  /\ UNCHANGED <<users, students, teachers, subjects, subject_seq,
                 availability, availability_seq, pricing_tiers, pricing_seq,
                 bookings, booking_seq, payment_proofs, proof_seq, clients,
                 edits, calls, request>>
  /\ IF ~authenticate(u) THEN resp' = R(401, <<>>)
     ELSE IF ~requireAdmin(u) THEN resp' = R(403, <<>>)
     ELSE resp' = R(200, NewestFirst({p \in DOMAIN payment_proofs :
                           payment_proofs[p].status = "pending" /\ JoinedProof(p)}))

\* GET /api/payments/pending
ListPendingPayments(u) ==
  LET R(code, data) == Response("ListPendingPayments", u, code, 0, "", data)
  IN
  /\ UNCHANGED <<users, students, teachers, subjects, subject_seq,
                 availability, availability_seq, pricing_tiers, pricing_seq,
                 bookings, booking_seq, payment_proofs, proof_seq, clients,
                 edits, calls, request>>
  /\ IF ~authenticate(u) THEN resp' = R(401, <<>>)
     ELSE IF ~requireAdmin(u) THEN resp' = R(403, <<>>)
     ELSE resp' = R(200, OldestFirst({p \in DOMAIN payment_proofs :
                           payment_proofs[p].status = "pending" /\ JoinedProof(p)}))

\* mutant of SubmitCheck: existence and ownership answered differently
SubmitCheckLeaky(u, bookingId) ==
  IF ~authenticate(u) THEN 401
  ELSE IF ~requireStudent(u) THEN 403
  ELSE IF bookingId = 0 THEN 400
  ELSE IF StudentRows(u) = {} THEN 500
  ELSE IF bookingId \notin DOMAIN bookings THEN 404
  ELSE IF bookings[bookingId].student_id # FirstRow(StudentRows(u)) THEN 403
  ELSE 0

\* POST /api/payments before the transaction: the status of the early
\* return, or 0 when the handler goes on to transaction(...)
\* (bookingId 0 stands for a body without bookingId)
SubmitCheck(u, bookingId) ==
  IF ~authenticate(u) THEN 401
  ELSE IF ~requireStudent(u) THEN 403
  ELSE IF bookingId = 0 THEN 400
  \* studentResult.rows[0] is undefined: TypeError, caught by the handler
  ELSE IF StudentRows(u) = {} THEN 500
  ELSE IF ~(bookingId \in DOMAIN bookings
            /\ bookings[bookingId].student_id = FirstRow(StudentRows(u)))
    THEN 404
  ELSE 0

\* POST /api/payments up to and including the INSERT INTO payment_proofs
SubmitPaymentProof(c, u, bookingId) ==
  LET R(code) == Response("SubmitPaymentProof", u, code, bookingId, "", <<>>)
  IN
  /\ UNCHANGED <<users, students, teachers, subjects, subject_seq,
                 availability, availability_seq, pricing_tiers, pricing_seq,
                 bookings, booking_seq, payment_proofs, edits, calls,
                 request>>
  /\ IF SubmitCheck(u, bookingId) # 0
       THEN resp' = R(SubmitCheck(u, bookingId)) /\ UNCHANGED <<clients,
                                                                proof_seq>>
       ELSE /\ clients[c].op = "idle"
            /\ proof_seq' = proof_seq + 1
            /\ clients' = [clients EXCEPT ![c] =
                 [Begin("SubmitPaymentProof", u, bookingId, "") EXCEPT
                    !.pc = "update", !.bookingId = bookingId,
                    !.proofIns = Extend(<<>>, proof_seq + 1,
                       [booking_id |-> bookingId, status |-> "pending"])]]
            /\ UNCHANGED resp

\* mutant of SubmitUpdateBooking: the UPDATE carries AND status = 'pending_payment'
SubmitUpdateBookingIfPending(c) ==
  LET t == clients[c]
  IN /\ t.op = "SubmitPaymentProof" /\ t.pc = "update"
     /\ ~BookingLocked(t.bookingId, c)
     /\ clients' = [clients EXCEPT ![c] =
          [t EXCEPT !.pc = "commit",
                    !.bookingUpd =
                       IF bookings[t.bookingId].status = "pending_payment"
                         THEN Extend(<<>>, t.bookingId, "payment_under_review")
                         ELSE <<>>]]
     /\ UNCHANGED <<users, students, teachers, subjects, subject_seq,
                    availability, availability_seq, pricing_tiers,
                    pricing_seq, bookings, booking_seq, payment_proofs,
                    proof_seq, resp, edits, calls, request>>

\* "UPDATE bookings SET status = 'payment_under_review' ... WHERE id = $1"
SubmitUpdateBooking(c) ==
  LET t == clients[c]
  IN /\ t.op = "SubmitPaymentProof" /\ t.pc = "update"
     /\ ~BookingLocked(t.bookingId, c)
     /\ clients' = [clients EXCEPT ![c] =
          [t EXCEPT !.pc = "commit",
                    !.bookingUpd = Extend(<<>>, t.bookingId, "payment_under_review")]]
     /\ UNCHANGED <<users, students, teachers, subjects, subject_seq,
                    availability, availability_seq, pricing_tiers,
                    pricing_seq, bookings, booking_seq, payment_proofs,
                    proof_seq, resp, edits, calls, request>>

\* const newBookingStatus = status === 'approved' ? 'confirmed' : 'pending_payment'
newBookingStatus(status) ==
  IF status = "approved" THEN "confirmed" ELSE "pending_payment"

\* mutant of ReviewPayment: the status of the body is not compared with
\* ['approved', 'rejected']
ReviewPaymentUnvalidated(c, u, id, status) ==
  LET R(code) == Response("ReviewPayment", u, code, id, status, <<>>)
  IN
  /\ UNCHANGED <<users, students, teachers, subjects, subject_seq,
                 availability, availability_seq, pricing_tiers, pricing_seq,
                 bookings, booking_seq, payment_proofs, proof_seq, edits,
                 calls, request>>
  /\ IF ~authenticate(u)
       THEN resp' = R(401) /\ UNCHANGED clients
     ELSE IF ~requireAdmin(u)
       THEN resp' = R(403) /\ UNCHANGED clients
     ELSE /\ clients[c].op = "idle"
          /\ clients' = [clients EXCEPT ![c] =
               IF ProofLocked(id, c)
                 THEN [Begin("ReviewPayment", u, id, status) EXCEPT !.pc = "verify"]
                 ELSE [Begin("ReviewPayment", u, id, status) EXCEPT
                         !.pc = "select",
                         !.proofUpd = IF id \in DOMAIN payment_proofs
                                        THEN Extend(<<>>, id, status) ELSE <<>>]]
          /\ UNCHANGED resp

\* PUT /api/payments/:id/verify up to and including the UPDATE payment_proofs
ReviewPayment(c, u, id, status) ==
  LET R(code) == Response("ReviewPayment", u, code, id, status, <<>>)
  IN
  /\ UNCHANGED <<users, students, teachers, subjects, subject_seq,
                 availability, availability_seq, pricing_tiers, pricing_seq,
                 bookings, booking_seq, payment_proofs, proof_seq, edits,
                 calls, request>>
  /\ IF ~authenticate(u)
       THEN resp' = R(401) /\ UNCHANGED clients
     ELSE IF ~requireAdmin(u)
       THEN resp' = R(403) /\ UNCHANGED clients
     ELSE IF status \notin {"approved", "rejected"}
       THEN resp' = R(400) /\ UNCHANGED clients
     ELSE /\ clients[c].op = "idle"
          /\ clients' = [clients EXCEPT ![c] =
               IF ProofLocked(id, c)
                 \* the UPDATE waits for the transaction that holds the row
                 THEN [Begin("ReviewPayment", u, id, status) EXCEPT !.pc = "verify"]
                 ELSE [Begin("ReviewPayment", u, id, status) EXCEPT
                         !.pc = "select",
                         !.proofUpd = IF id \in DOMAIN payment_proofs
                                        THEN Extend(<<>>, id, status) ELSE <<>>]]
          /\ UNCHANGED resp

\* mutant of ReviewUpdateProof: the UPDATE runs on the pool, outside the
\* transaction and without waiting
ReviewUpdateProofOnPool(c) ==
  LET t == clients[c]
  IN /\ t.op = "ReviewPayment" /\ t.pc = "verify"
     /\ payment_proofs' = IF t.id \in DOMAIN payment_proofs
                            THEN [payment_proofs EXCEPT ![t.id].status = t.arg]
                            ELSE payment_proofs
     /\ clients' = [clients EXCEPT ![c] = [t EXCEPT !.pc = "select"]]
     /\ UNCHANGED <<users, students, teachers, subjects, subject_seq,
                    availability, availability_seq, pricing_tiers,
                    pricing_seq, bookings, booking_seq, proof_seq, resp,
                    edits, calls, request>>

\* 'UPDATE payment_proofs SET status = $1 ... WHERE id = $3' once the
\* transaction that held the row has ended
ReviewUpdateProof(c) ==
  LET t == clients[c]
  IN /\ t.op = "ReviewPayment" /\ t.pc = "verify"
     /\ ~ProofLocked(t.id, c)
     /\ clients' = [clients EXCEPT ![c] =
          [t EXCEPT !.pc = "select",
                    !.proofUpd = IF t.id \in DOMAIN payment_proofs
                                   THEN Extend(<<>>, t.id, t.arg) ELSE <<>>]]
     /\ UNCHANGED <<users, students, teachers, subjects, subject_seq,
                    availability, availability_seq, pricing_tiers,
                    pricing_seq, bookings, booking_seq, payment_proofs,
                    proof_seq, resp, edits, calls, request>>

\* 'SELECT booking_id FROM payment_proofs WHERE id = $1' and rows[0].booking_id
ReviewSelect(c) ==
  LET t == clients[c]
  IN /\ t.op = "ReviewPayment" /\ t.pc = "select"
     /\ IF t.id \in DOMAIN payment_proofs
          THEN /\ clients' = [clients EXCEPT ![c] =
                    [t EXCEPT !.pc = "update",
                              !.bookingId = payment_proofs[t.id].booking_id]]
               /\ UNCHANGED <<users, students, teachers, subjects,
                              subject_seq, availability, availability_seq,
                              pricing_tiers, pricing_seq, bookings,
                              booking_seq, payment_proofs, proof_seq, resp,
                              edits, calls, request>>
          \* paymentResult.rows[0] is undefined: TypeError inside the callback
          ELSE Rollback(c)

\* mutant of ReviewUpdateBooking: the UPDATE goes through the pool's query
\* instead of the transaction's client
ReviewUpdateBookingOnPool(c) ==
  LET t == clients[c]
  IN /\ t.op = "ReviewPayment" /\ t.pc = "update"
     /\ ~BookingLocked(t.bookingId, c)
     /\ bookings' = [bookings EXCEPT
                       ![t.bookingId].status = newBookingStatus(t.arg)]
     /\ clients' = [clients EXCEPT ![c] = [t EXCEPT !.pc = "commit"]]
     /\ UNCHANGED <<users, students, teachers, subjects, subject_seq,
                    availability, availability_seq, pricing_tiers,
                    pricing_seq, booking_seq, payment_proofs, proof_seq, resp,
                    edits, calls, request>>

\* mutant of ReviewUpdateBooking: the UPDATE carries
\* "AND status = 'payment_under_review'"
ReviewUpdateBookingIfUnderReview(c) ==
  LET t == clients[c]
  IN /\ t.op = "ReviewPayment" /\ t.pc = "update"
     /\ ~BookingLocked(t.bookingId, c)
     /\ clients' = [clients EXCEPT ![c] =
          [t EXCEPT !.pc = "commit",
                    !.bookingUpd =
                       IF bookings[t.bookingId].status = "payment_under_review"
                         THEN Extend(<<>>, t.bookingId, newBookingStatus(t.arg))
                         ELSE <<>>]]
     /\ UNCHANGED <<users, students, teachers, subjects, subject_seq,
                    availability, availability_seq, pricing_tiers,
                    pricing_seq, bookings, booking_seq, payment_proofs,
                    proof_seq, resp, edits, calls, request>>

\* 'UPDATE bookings SET status = $1, updated_at = NOW() WHERE id = $2'
ReviewUpdateBooking(c) ==
  LET t == clients[c]
  IN /\ t.op = "ReviewPayment" /\ t.pc = "update"
     /\ ~BookingLocked(t.bookingId, c)
     /\ clients' = [clients EXCEPT ![c] =
          [t EXCEPT !.pc = "commit",
                    !.bookingUpd = Extend(<<>>, t.bookingId, newBookingStatus(t.arg))]]
     /\ UNCHANGED <<users, students, teachers, subjects, subject_seq,
                    availability, availability_seq, pricing_tiers,
                    pricing_seq, bookings, booking_seq, payment_proofs,
                    proof_seq, resp, edits, calls, request>>

(***************************************************************************)
(* routes/subjects: pricing replacement                                    *)
(***************************************************************************)
Tier(g, p) == [gradeLevel |-> g, pricePerHour |-> p]

\* the pricingTiers arrays of request bodies
TierLists ==
  UNION {[1..n -> {Tier(g, p) : g \in Grades, p \in Prices}] : n \in 0..MaxTiers}

\* mutant of UpdatePricing: the DELETE goes through the pool's query, outside
\* the transaction
UpdatePricingDeleteOnPool(c, u, id, pricingTiers) ==
  LET R(code) == Response("UpdatePricing", u, code, id, "", pricingTiers)
  IN
  /\ UNCHANGED <<users, students, teachers, subjects, subject_seq,
                 availability, availability_seq, pricing_seq, bookings,
                 booking_seq, payment_proofs, proof_seq, edits, calls,
                 request>>
  /\ IF ~authenticate(u)
       THEN resp' = R(401) /\ UNCHANGED <<clients, pricing_tiers>>
     ELSE IF ~requireAdmin(u)
       THEN resp' = R(403) /\ UNCHANGED <<clients, pricing_tiers>>
     ELSE /\ clients[c].op = "idle"
          /\ pricing_tiers' = Without(pricing_tiers,
                                 {k \in DOMAIN pricing_tiers :
                                    pricing_tiers[k].subject_id = id})
          /\ clients' = [clients EXCEPT ![c] =
               [Begin("UpdatePricing", u, id, "") EXCEPT
                  !.pc = IF pricingTiers = <<>> THEN "commit" ELSE "insert",
                  !.todo = pricingTiers]]
          /\ UNCHANGED resp

\* PUT /api/subjects/:id/pricing up to and including the DELETE
UpdatePricing(c, u, id, pricingTiers) ==
  LET R(code) == Response("UpdatePricing", u, code, id, "", pricingTiers)
  IN
  /\ UNCHANGED <<users, students, teachers, subjects, subject_seq,
                 availability, availability_seq, pricing_tiers, pricing_seq,
                 bookings, booking_seq, payment_proofs, proof_seq, edits,
                 calls, request>>
  /\ IF ~authenticate(u)
       THEN resp' = R(401) /\ UNCHANGED clients
     ELSE IF ~requireAdmin(u)
       THEN resp' = R(403) /\ UNCHANGED clients
     ELSE /\ clients[c].op = "idle"
          /\ clients' = [clients EXCEPT ![c] =
               [Begin("UpdatePricing", u, id, "") EXCEPT
                  !.pc = IF pricingTiers = <<>> THEN "commit" ELSE "insert",
                  !.todo = pricingTiers,
                  !.tierDel = {k \in DOMAIN pricing_tiers :
                                 pricing_tiers[k].subject_id = id}]]
          /\ UNCHANGED resp

\* POST /api/subjects up to and including the INSERT INTO subjects
CreateSubject(c, u, name, pricingTiers) ==
  LET R(code) == Response("CreateSubject", u, code, 0, name, pricingTiers)
  IN
  /\ UNCHANGED <<users, students, teachers, subjects, availability,
                 availability_seq, pricing_tiers, pricing_seq, bookings,
                 booking_seq, payment_proofs, proof_seq, edits, calls,
                 request>>
  /\ IF ~authenticate(u)
       THEN resp' = R(401) /\ UNCHANGED <<clients, subject_seq>>
     ELSE IF ~requireAdmin(u)
       THEN resp' = R(403) /\ UNCHANGED <<clients, subject_seq>>
     ELSE IF Len(name) < 2 \/ Len(pricingTiers) < 1
       THEN resp' = R(400) /\ UNCHANGED <<clients, subject_seq>>
     ELSE /\ clients[c].op = "idle"
          /\ subject_seq' = subject_seq + 1
          /\ clients' = [clients EXCEPT ![c] =
               [Begin("CreateSubject", u, subject_seq + 1, name) EXCEPT
                  !.pc = "insert",
                  !.todo = pricingTiers,
                  !.subjectIns = Extend(<<>>, subject_seq + 1, [is_active |-> TRUE])]]
          /\ UNCHANGED resp

\* DELETE /api/subjects/:id (soft delete)
DeleteSubject(u, id) ==
  LET R(code) == Response("DeleteSubject", u, code, id, "", <<>>)
  IN
  /\ UNCHANGED <<users, students, teachers, subject_seq, availability,
                 availability_seq, pricing_tiers, pricing_seq, bookings,
                 booking_seq, payment_proofs, proof_seq, clients, edits,
                 calls, request>>
  /\ IF ~authenticate(u)
       THEN resp' = R(401) /\ UNCHANGED subjects
     ELSE IF ~requireAdmin(u)
       THEN resp' = R(403) /\ UNCHANGED subjects
     ELSE IF id \notin DOMAIN subjects
       THEN resp' = R(404) /\ UNCHANGED subjects
     ELSE /\ subjects' = [subjects EXCEPT ![id].is_active = FALSE]
          /\ resp' = R(200)

\* mutant of PricingInsert: UNIQUE(subject_id, grade_level) is not enforced
PricingInsertUnchecked(c) ==
  LET t == clients[c]
      tier == Head(t.todo)
      row == TierRow(t.id, tier.gradeLevel, tier.pricePerHour)
  IN /\ t.op \in {"UpdatePricing", "CreateSubject"} /\ t.pc = "insert"
     /\ pricing_seq' = pricing_seq + 1
     /\ clients' = [clients EXCEPT ![c] =
          [t EXCEPT !.todo = Tail(t.todo),
                    !.tierIns = Extend(t.tierIns, pricing_seq + 1, row),
                    !.pc = IF Tail(t.todo) = <<>> THEN "commit" ELSE "insert"]]
     /\ UNCHANGED <<users, students, teachers, subjects, subject_seq,
                    availability, availability_seq, pricing_tiers, bookings,
                    booking_seq, payment_proofs, proof_seq, resp, edits,
                    calls, request>>

\* mutant of PricingInsert: the statements run on the pool, so a failing
\* INSERT leaves the earlier DELETE and INSERTs in place
PricingInsertOnPool(c) ==
  LET t == clients[c]
      tier == Head(t.todo)
      row == TierRow(t.id, tier.gradeLevel, tier.pricePerHour)
      kept == (DOMAIN pricing_tiers) \ t.tierDel
      taken == \/ \E k \in kept : /\ pricing_tiers[k].subject_id = row.subject_id
                                  /\ pricing_tiers[k].grade_level = row.grade_level
               \/ \E k \in DOMAIN t.tierIns :
                     /\ t.tierIns[k].subject_id = row.subject_id
                     /\ t.tierIns[k].grade_level = row.grade_level
  IN /\ t.op \in {"UpdatePricing", "CreateSubject"} /\ t.pc = "insert"
     /\ pricing_seq' = pricing_seq + 1
     /\ IF taken \/ t.id \notin (DOMAIN subjects) \cup (DOMAIN t.subjectIns)
          THEN /\ clients' = [clients EXCEPT ![c] = IdleClient]
               /\ resp' = Response(t.op, t.caller, 500, t.id, t.arg, t.todo)
               /\ pricing_tiers' = CommitTiers(t)
               /\ subjects' = CommitSubjects(t)
          ELSE /\ clients' = [clients EXCEPT ![c] =
                    [t EXCEPT !.todo = Tail(t.todo),
                              !.tierIns = Extend(t.tierIns, pricing_seq + 1, row),
                              !.pc = IF Tail(t.todo) = <<>> THEN "commit"
                                     ELSE "insert"]]
               /\ UNCHANGED <<resp, pricing_tiers, subjects>>
     /\ UNCHANGED <<users, students, teachers, subject_seq, availability,
                    availability_seq, bookings, booking_seq, payment_proofs,
                    proof_seq, edits, calls, request>>

\* one 'INSERT INTO pricing_tiers' of the for loop; UNIQUE(subject_id, grade_level)
PricingInsert(c) ==
  LET t == clients[c]
      tier == Head(t.todo)
      row == TierRow(t.id, tier.gradeLevel, tier.pricePerHour)
      kept == (DOMAIN pricing_tiers) \ t.tierDel
      taken == \/ \E k \in kept : /\ pricing_tiers[k].subject_id = row.subject_id
                                  /\ pricing_tiers[k].grade_level = row.grade_level
               \/ \E k \in DOMAIN t.tierIns :
                     /\ t.tierIns[k].subject_id = row.subject_id
                     /\ t.tierIns[k].grade_level = row.grade_level
  IN /\ t.op \in {"UpdatePricing", "CreateSubject"} /\ t.pc = "insert"
     \* the id is drawn from the sequence before the constraints are checked
     /\ pricing_seq' = pricing_seq + 1
     /\ IF taken \/ t.id \notin (DOMAIN subjects) \cup (DOMAIN t.subjectIns)
          \* the INSERT throws, the catch of transaction() rolls back
          THEN /\ clients' = [clients EXCEPT ![c] = IdleClient]
               /\ resp' = Response(t.op, t.caller, 500, t.id, t.arg, t.todo)
          ELSE /\ clients' = [clients EXCEPT ![c] =
                    [t EXCEPT !.todo = Tail(t.todo),
                              !.tierIns = Extend(t.tierIns, pricing_seq + 1, row),
                              !.pc = IF Tail(t.todo) = <<>> THEN "commit"
                                     ELSE "insert"]]
               /\ UNCHANGED resp
     /\ UNCHANGED <<users, students, teachers, subjects, subject_seq,
                    availability, availability_seq, pricing_tiers, bookings,
                    booking_seq, payment_proofs, proof_seq, edits, calls,
                    request>>

(***************************************************************************)
(* routes/teachers                                                         *)
(***************************************************************************)
\* PUT /api/teachers/profile (meetingLink; "undefined" stands for a body
\* with neither bio nor meetingLink)
UpdateTeacherProfile(u, meetingLink) ==
  LET R(code) == Response("UpdateTeacherProfile", u, code, 0, meetingLink, <<>>)
  IN
  /\ UNCHANGED <<users, students, subjects, subject_seq, availability,
                 availability_seq, pricing_tiers, pricing_seq, bookings,
                 booking_seq, payment_proofs, proof_seq, clients, edits,
                 calls, request>>
  /\ IF ~authenticate(u)
       THEN resp' = R(401) /\ UNCHANGED teachers
     ELSE IF ~requireTeacher(u)
       THEN resp' = R(403) /\ UNCHANGED teachers
     ELSE IF TeacherRows(u) = {}
       THEN resp' = R(404) /\ UNCHANGED teachers
     ELSE IF meetingLink = "undefined"
       THEN resp' = R(400) /\ UNCHANGED teachers
     ELSE /\ teachers' = [teachers EXCEPT
                            ![FirstRow(TeacherRows(u))].meeting_link = meetingLink]
          /\ resp' = R(200)

\* mutant of VerifiedRow: every reviewed teacher goes live
VerifiedRowAlwaysLive(row, status) ==
  [row EXCEPT !.verification_status = status, !.is_live = TRUE]

\* 'SET verification_status = $1, ..., is_live = $3' with $3 = (status === 'approved')
VerifiedRow(row, status) ==
  [row EXCEPT !.verification_status = status, !.is_live = (status = "approved")]

\* PUT /api/teachers/:id/verify
VerifyTeacher(u, id, status) ==
  LET R(code) == Response("VerifyTeacher", u, code, id, status, <<>>)
  IN
  /\ UNCHANGED <<users, students, subjects, subject_seq, availability,
                 availability_seq, pricing_tiers, pricing_seq, bookings,
                 booking_seq, payment_proofs, proof_seq, clients, edits,
                 calls, request>>
  /\ IF ~authenticate(u)
       THEN resp' = R(401) /\ UNCHANGED teachers
     ELSE IF ~requireAdmin(u)
       THEN resp' = R(403) /\ UNCHANGED teachers
     ELSE IF status \notin {"approved", "rejected"}
       THEN resp' = R(400) /\ UNCHANGED teachers
     ELSE IF id \notin DOMAIN teachers
       THEN resp' = R(404) /\ UNCHANGED teachers
     ELSE /\ teachers' = [teachers EXCEPT ![id] = VerifiedRow(teachers[id], status)]
          /\ resp' = R(200)

\* availability.day CHECK (day IN ('monday', ..., 'sunday'))
Days == {"monday", "tuesday"}

\* the day of a slot of a request body; "someday" fails the CHECK
SlotInputs == Days \cup {"someday"}

\* a request body whose availability is missing or not an array
NoArray == <<"undefined">>

\* the availability arrays of request bodies
SlotLists == UNION {[1..n -> SlotInputs] : n \in 0..MaxSlots}

\* the committed availability rows of teacher t
AvailabilityOf(t) == {a \in DOMAIN availability : availability[a].teacher_id = t}

\* a DELETE waits while another client's open transaction has deleted one
\* of the rows it wants
AvailabilityLocked(rows, me) ==
  \E c \in Clients : c # me /\ clients[c].pc # "delete"
                     /\ clients[c].availDel \cap rows # {}

\* PUT /api/teachers/availability up to and including the DELETE
UpdateAvailability(c, u, slots) ==
  LET R(code) == Response("UpdateAvailability", u, code, 0, "", slots)
      teacherId == FirstRow(TeacherRows(u))
      rows == AvailabilityOf(teacherId)
  IN
  /\ UNCHANGED <<users, students, teachers, subjects, subject_seq,
                 availability, availability_seq, pricing_tiers, pricing_seq,
                 bookings, booking_seq, payment_proofs, proof_seq, edits,
                 calls, request>>
  /\ IF ~authenticate(u)
       THEN resp' = R(401) /\ UNCHANGED clients
     ELSE IF ~requireTeacher(u)
       THEN resp' = R(403) /\ UNCHANGED clients
     ELSE IF slots = NoArray
       THEN resp' = R(400) /\ UNCHANGED clients
     ELSE IF TeacherRows(u) = {}
       THEN resp' = R(404) /\ UNCHANGED clients
     ELSE /\ clients[c].op = "idle"
          /\ clients' = [clients EXCEPT ![c] =
               [Begin("UpdateAvailability", u, teacherId, "") EXCEPT
                  !.todo = slots,
                  !.availDel = rows,
                  !.pc = IF AvailabilityLocked(rows, c) THEN "delete"
                         ELSE IF slots = <<>> THEN "commit" ELSE "insert"]]
          /\ UNCHANGED resp

\* the DELETE once the transaction that held its rows has ended: of the rows
\* the statement saw when it started, those that are still stored are deleted
AvailabilityDelete(c) ==
  LET t == clients[c]
  IN /\ t.op = "UpdateAvailability" /\ t.pc = "delete"
     /\ ~AvailabilityLocked(t.availDel, c)
     /\ clients' = [clients EXCEPT ![c] =
          [t EXCEPT !.availDel = t.availDel \cap DOMAIN availability,
                    !.pc = IF t.todo = <<>> THEN "commit" ELSE "insert"]]
     /\ UNCHANGED <<users, students, teachers, subjects, subject_seq,
                    availability, availability_seq, pricing_tiers,
                    pricing_seq, bookings, booking_seq, payment_proofs,
                    proof_seq, resp, edits, calls, request>>

\* one 'INSERT INTO availability' of the for loop
AvailabilityInsert(c) ==
  LET t == clients[c]
      day == Head(t.todo)
  IN /\ t.op = "UpdateAvailability" /\ t.pc = "insert"
     /\ IF day \notin Days \/ t.id \notin DOMAIN teachers
          \* the CHECK on day or the reference to teachers(id) fails
          THEN Rollback(c)
          ELSE /\ availability_seq' = availability_seq + 1
               /\ clients' = [clients EXCEPT ![c] =
                    [t EXCEPT !.todo = Tail(t.todo),
                              !.availIns = Extend(t.availIns, availability_seq + 1,
                                              [teacher_id |-> t.id, day |-> day]),
                              !.pc = IF Tail(t.todo) = <<>> THEN "commit"
                                     ELSE "insert"]]
               /\ UNCHANGED <<users, students, teachers, subjects,
                              subject_seq, availability, pricing_tiers,
                              pricing_seq, bookings, booking_seq,
                              payment_proofs, proof_seq, resp, edits, calls,
                              request>>

(***************************************************************************)
(* middleware/auth.js: a request passing through the chain of its route,   *)
(* authenticate, then the route's role guard if it has one, then the route *)
(* handler.  The trace records what each of them did.                      *)
(***************************************************************************)
\* the Authorization headers of requests: none, a scheme other than Bearer,
\* and Bearer tokens that jwt.verify rejects or accepts for userId
Credentials ==
  {[header |-> "none", token |-> "none", userId |-> 0],
   [header |-> "Basic", token |-> "valid", userId |-> 1],
   [header |-> "Bearer", token |-> "invalid", userId |-> 1],
   [header |-> "Bearer", token |-> "expired", userId |-> 1]}
  \cup {[header |-> "Bearer", token |-> "valid", userId |-> u] : u \in UserIds}

\* the role guards of the routes ("none": the route has authenticate only)
Guards == {"none", "requireAdmin", "requireTeacher", "requireStudent"}

\* the role a guard lets pass
RequiredRole(guard) ==
  IF guard = "requireAdmin" THEN "admin"
  ELSE IF guard = "requireTeacher" THEN "teacher" ELSE "student"

Did(by, did) == [by |-> by, did |-> did]

\* everything but the request and the response
store == <<users, students, teachers, subjects, subject_seq, availability,
           availability_seq, pricing_tiers, pricing_seq, bookings, booking_seq,
           payment_proofs, proof_seq, clients, edits, calls>>

\* a request arrives at a route whose chain is authenticate, guard, handler
Receive(credential, guard) ==
  /\ request.stage \in {"idle", "done"}
  /\ request' = [NoRequest EXCEPT !.stage = "authenticate",
                                  !.credential = credential, !.guard = guard]
  /\ UNCHANGED <<store, resp>>

\* mutant of authenticateRequest: TokenExpiredError is not answered, the
\* token's user is looked up all the same
authenticateRequestIgnoringExpiry ==
  LET cr == request.credential
      Refuse == /\ resp' = Response("authenticate", 0, 401, 0, "", <<>>)
                /\ request' = [request EXCEPT
                      !.stage = "done",
                      !.trace = Append(@, Did("authenticate", "401"))]
  IN /\ request.stage = "authenticate"
     /\ UNCHANGED store
     /\ IF cr.header # "Bearer" THEN Refuse
        ELSE IF cr.token = "invalid" THEN Refuse
        ELSE IF ~authenticate(cr.userId) THEN Refuse
        ELSE /\ request' = [request EXCEPT
                  !.stage = IF request.guard = "none" THEN "handler" ELSE "guard",
                  !.user = cr.userId,
                  !.role = users[cr.userId],
                  !.trace = Append(@, Did("authenticate", "next"))]
             /\ UNCHANGED resp

\* authenticate(req, res, next): each 'return res.status(401)' ends the
\* chain; otherwise req.user is set and next() is called
authenticateRequest ==
  LET cr == request.credential
      Refuse == /\ resp' = Response("authenticate", 0, 401, 0, "", <<>>)
                /\ request' = [request EXCEPT
                      !.stage = "done",
                      !.trace = Append(@, Did("authenticate", "401"))]
  IN /\ request.stage = "authenticate"
     /\ UNCHANGED store
     /\ \* !authHeader || !authHeader.startsWith('Bearer ')
        IF cr.header # "Bearer" THEN Refuse
        \* jwt.verify throws JsonWebTokenError or TokenExpiredError
        ELSE IF cr.token \in {"invalid", "expired"} THEN Refuse
        \* result.rows.length === 0
        ELSE IF ~authenticate(cr.userId) THEN Refuse
        ELSE /\ request' = [request EXCEPT
                  !.stage = IF request.guard = "none" THEN "handler" ELSE "guard",
                  !.user = cr.userId,
                  !.role = users[cr.userId],
                  !.trace = Append(@, Did("authenticate", "next"))]
             /\ UNCHANGED resp

\* requireAdmin / requireTeacher / requireStudent (req, res, next)
requireRole ==
  /\ request.stage = "guard"
  /\ UNCHANGED store
  /\ IF request.role # RequiredRole(request.guard)
       THEN /\ resp' = Response(request.guard, request.user, 403, 0, "", <<>>)
            /\ request' = [request EXCEPT
                  !.stage = "done",
                  !.trace = Append(@, Did(request.guard, "403"))]
       ELSE /\ request' = [request EXCEPT
                  !.stage = "handler",
                  !.trace = Append(@, Did(request.guard, "next"))]
            /\ UNCHANGED resp

\* the response of the route handler is sent and the request is over
handlerResponds ==
  /\ request.stage = "handler"
  /\ resp # NoResp
  /\ resp' = NoResp
  /\ request' = [request EXCEPT !.stage = "done",
                                !.trace = Append(@, Did("handler", "sent"))]
  /\ UNCHANGED store

(***************************************************************************)
(* Specifications.  A response is handed to its caller before the next     *)
(* request or statement is explored.                                       *)
(***************************************************************************)
Deliver ==
  /\ resp # NoResp
  /\ resp' = NoResp
  /\ UNCHANGED <<users, students, teachers, subjects, subject_seq,
                 availability, availability_seq, pricing_tiers, pricing_seq,
                 bookings, booking_seq, payment_proofs, proof_seq, clients,
                 edits, calls, request>>

\* the previous response has been handed over
Ready == resp = NoResp

\* Payment workflow: student 2 books, students 2 and 3 and teacher 4 submit
\* proofs, admin 1 and student 2 review, admin 1 completes or cancels the
\* booking.
Next ==
  \/ Deliver
  \/ Ready /\ booking_seq < MaxBookings /\ CreateBooking(2, 1, 1, 90)
  \/ Ready /\ \E b \in 1..MaxBookings, st \in {"completed", "cancelled"} :
                 UpdateBookingStatus(1, b, st)
  \/ Ready /\ proof_seq < MaxProofs
           /\ \E u \in {2, 3, 4}, b \in 0..(MaxBookings + 1) :
                 SubmitPaymentProof(1, u, b)
  \/ Ready /\ SubmitUpdateBooking(1)
  \/ Ready /\ \E u \in {1, 2}, p \in 1..(MaxProofs + 1), d \in DecisionInputs :
                 ReviewPayment(1, u, p, d)
  \/ Ready /\ ReviewSelect(1)
  \/ Ready /\ ReviewUpdateBooking(1)
  \/ Ready /\ Commit(1)
  \/ Ready /\ Fail(1)

Spec == Init /\ [][Next]_vars

\* Authorization: student 2 books teacher 1 (user 4); every user asks for
\* every status, reads the bookings, and admins edit and delete users.
NextAuth ==
  \/ Deliver
  \/ Ready /\ booking_seq < MaxBookings /\ CreateBooking(2, 1, 1, 90)
  \/ Ready /\ \E u \in UserIds, b \in 1..(MaxBookings + 1), st \in StatusInputs :
                 UpdateBookingStatus(u, b, st)
  \/ Ready /\ \E u \in UserIds : GetBookings(u)
  \/ Ready /\ \E u \in UserIds, b \in 1..(MaxBookings + 1) : GetBookingById(u, b)
  \/ Ready /\ edits < MaxEdits
           /\ \E u \in UserIds, id \in UserIds, r \in Roles \cup {"guest"} :
                 AdminUpdateUser(u, id, r)
  \/ Ready /\ edits < MaxEdits
           /\ \E u \in UserIds, id \in UserIds : AdminDeleteUser(u, id)

SpecAuth == Init /\ [][NextAuth]_vars

\* Booking and pricing: student 2 books subjects 1 and 6 with teacher 1 and
\* changes grade, the admin replaces the seeded pricing of subject 1 by tiers
\* at 15.00, and booking 1 goes through a status update, proof submission and
\* review.
NextBook ==
  \/ Deliver
  \/ Ready /\ booking_seq < MaxBookings
           /\ \E subjectId \in SubjectIds, duration \in {20, 30, 90} :
                 CreateBooking(2, 1, subjectId, duration)
  \/ Ready /\ pricing_seq = SeededTiers
           /\ \E pricingTiers \in TierLists :
                 /\ \A i \in DOMAIN pricingTiers : pricingTiers[i].pricePerHour = 1500
                 /\ UpdatePricing(1, 1, 1, pricingTiers)
  \/ Ready /\ PricingInsert(1)
  \/ Ready /\ \E g \in Grades \cup {"undefined"} : UpdateStudentProfile(2, g)
  \/ Ready /\ UpdateBookingStatus(1, 1, "cancelled")
  \/ Ready /\ proof_seq < MaxProofs - 1 /\ SubmitPaymentProof(1, 2, 1)
  \/ Ready /\ SubmitUpdateBooking(1)
  \/ Ready /\ \E pr \in 1..(MaxProofs - 1) : ReviewPayment(1, 1, pr, "approved")
  \/ Ready /\ ReviewSelect(1)
  \/ Ready /\ ReviewUpdateBooking(1)
  \/ Ready /\ Commit(1)
  \/ Ready /\ Fail(1)

SpecBook == Init /\ [][NextBook]_vars

\* Status updates among several bookings: student 2 makes bookings with
\* teacher 1 (user 4) and submits a proof for booking 1, which the admin
\* approves; the admin, the student and the teacher update statuses.
NextFrame ==
  \/ Deliver
  \/ Ready /\ booking_seq < MaxBookings + 1 /\ CreateBooking(2, 1, 1, 90)
  \/ Ready /\ \E u \in {1, 2, 4}, b \in 1..(MaxBookings + 1),
                 st \in {"confirmed", "cancelled"} : UpdateBookingStatus(u, b, st)
  \/ Ready /\ proof_seq < MaxProofs - 1 /\ SubmitPaymentProof(1, 2, 1)
  \/ Ready /\ SubmitUpdateBooking(1)
  \/ Ready /\ \E pr \in 1..(MaxProofs - 1) : ReviewPayment(1, 1, pr, "approved")
  \/ Ready /\ ReviewSelect(1)
  \/ Ready /\ ReviewUpdateBooking(1)
  \/ Ready /\ Commit(1)
  \/ Ready /\ Fail(1)

SpecFrame == Init /\ [][NextFrame]_vars

\* Concurrent reviews: student 2 submits one proof for booking 1 and the admin
\* reviews the stored proof from both clients at once.
NextRace ==
  \/ Deliver
  \/ Ready /\ booking_seq < MaxBookings /\ CreateBooking(2, 1, 1, 90)
  \/ Ready /\ DOMAIN payment_proofs = {} /\ proof_seq < MaxProofs
           /\ SubmitPaymentProof(1, 2, 1)
  \/ Ready /\ SubmitUpdateBooking(1)
  \/ Ready /\ \E c \in Clients, pr \in DOMAIN payment_proofs,
                 d \in {"approved", "rejected"} : ReviewPayment(c, 1, pr, d)
  \/ Ready /\ \E c \in Clients : ReviewUpdateProof(c)
  \/ Ready /\ \E c \in Clients : ReviewSelect(c)
  \/ Ready /\ \E c \in Clients : ReviewUpdateBooking(c)
  \/ Ready /\ \E c \in Clients : Commit(c)
  \/ Ready /\ \E c \in Clients : Fail(c)

SpecRace == Init /\ [][NextRace]_vars

\* Teachers: the admin verifies teacher 1 (user 4), who updates the profile
\* and replaces the availability; the admin edits or deletes user 4.
NextTeach ==
  \/ Deliver
  \/ Ready /\ \E u \in {1, 4}, id \in {1, 3}, st \in DecisionInputs :
                 VerifyTeacher(u, id, st)
  \/ Ready /\ \E u \in {2, 4}, link \in {"undefined", "https://meet.example/t"} :
                 UpdateTeacherProfile(u, link)
  \/ Ready /\ availability_seq < MaxSlots
           /\ \E u \in {2, 4}, slots \in SlotLists \cup {NoArray} :
                 UpdateAvailability(1, u, slots)
  \/ Ready /\ AvailabilityInsert(1)
  \/ Ready /\ Commit(1)
  \/ Ready /\ Fail(1)
  \/ Ready /\ edits < MaxEdits
           /\ \E r \in {"student", "teacher"} : AdminUpdateUser(1, 4, r)
  \/ Ready /\ edits < MaxEdits /\ AdminDeleteUser(1, 4)

SpecTeach == Init /\ [][NextTeach]_vars

\* Subjects and pricing: the admin creates subjects with tiers at 15.00 and
\* replaces the pricing of the seeded subject 1 and of the subject with the
\* next id, created or not; student 2 attempts both.
NextPrice ==
  \/ Deliver
  \/ Ready /\ subject_seq < SeededSubjects + MaxSubjects
           /\ pricing_seq < SeededTiers + MaxTiers
           /\ \E u \in {1, 2}, name \in {"Art", "X"}, pricingTiers \in TierLists :
                 /\ \A i \in DOMAIN pricingTiers : pricingTiers[i].pricePerHour = 1500
                 /\ CreateSubject(1, u, name, pricingTiers)
  \/ Ready /\ pricing_seq < SeededTiers + MaxTiers
           /\ \E u \in {1, 2}, id \in {1, SeededSubjects + 1}, pricingTiers \in TierLists :
                 /\ \A i \in DOMAIN pricingTiers : pricingTiers[i].pricePerHour = 1500
                 /\ UpdatePricing(1, u, id, pricingTiers)
  \/ Ready /\ PricingInsert(1)
  \/ Ready /\ Commit(1)
  \/ Ready /\ Fail(1)

SpecPrice == Init /\ [][NextPrice]_vars

\* Keeping bookings: student 2 books subject 1 with teacher 1 (user 4) and
\* submits a proof, which the admin reviews; the admin cancels bookings,
\* deactivates subjects, and edits and deletes users.
NextKeep ==
  \/ Deliver
  \/ Ready /\ booking_seq < MaxBookings /\ CreateBooking(2, 1, 1, 90)
  \/ Ready /\ \E b \in 1..MaxBookings : UpdateBookingStatus(1, b, "cancelled")
  \/ Ready /\ \E u \in {1, 2}, id \in {1, SeededSubjects + 1} : DeleteSubject(u, id)
  \/ Ready /\ edits < MaxEdits
           /\ \E id \in {2, 3, 4}, r \in Roles : AdminUpdateUser(1, id, r)
  \/ Ready /\ edits < MaxEdits /\ \E id \in {2, 3, 4} : AdminDeleteUser(1, id)
  \/ Ready /\ proof_seq < MaxProofs - 1 /\ SubmitPaymentProof(1, 2, 1)
  \/ Ready /\ SubmitUpdateBooking(1)
  \/ Ready /\ \E pr \in 1..(MaxProofs - 1) : ReviewPayment(1, 1, pr, "rejected")
  \/ Ready /\ ReviewSelect(1)
  \/ Ready /\ ReviewUpdateBooking(1)
  \/ Ready /\ Commit(1)
  \/ Ready /\ Fail(1)

SpecKeep == Init /\ [][NextKeep]_vars

\* The review queue: student 2 submits proofs for booking 1, the admin
\* reviews them, and the admin and the student read the pending list.
NextList ==
  \/ Deliver
  \/ Ready /\ booking_seq < MaxBookings /\ CreateBooking(2, 1, 1, 90)
  \/ Ready /\ proof_seq < MaxProofs + 1 /\ SubmitPaymentProof(1, 2, 1)
  \/ Ready /\ SubmitUpdateBooking(1)
  \/ Ready /\ \E pr \in 1..(MaxProofs + 1), d \in {"approved", "rejected"} :
                 ReviewPayment(1, 1, pr, d)
  \/ Ready /\ ReviewSelect(1)
  \/ Ready /\ ReviewUpdateBooking(1)
  \/ Ready /\ Commit(1)
  \/ Ready /\ Fail(1)
  \/ Ready /\ \E u \in {1, 2} : ListPendingPayments(u)

SpecList == Init /\ [][NextList]_vars

\* Reviews without infrastructure failures: student 2 books and submits proofs
\* for booking 1, the admin completes or cancels the booking and reviews
\* stored and missing proofs; no statement fails for a reason outside the
\* handlers.
NextReview ==
  \/ Deliver
  \/ Ready /\ booking_seq < MaxBookings /\ CreateBooking(2, 1, 1, 90)
  \/ Ready /\ \E st \in {"completed", "cancelled"} : UpdateBookingStatus(1, 1, st)
  \/ Ready /\ proof_seq < MaxProofs /\ SubmitPaymentProof(1, 2, 1)
  \/ Ready /\ SubmitUpdateBooking(1)
  \/ Ready /\ \E pr \in 1..(MaxProofs + 1), d \in DecisionInputs :
                 ReviewPayment(1, 1, pr, d)
  \/ Ready /\ ReviewSelect(1)
  \/ Ready /\ ReviewUpdateBooking(1)
  \/ Ready /\ Commit(1)

SpecReview == Init /\ [][NextReview]_vars

\* Calls of transaction(callback) on both clients, each awaited statement
\* resolving or rejecting.
NextCalls ==
  \/ \E c \in Clients, ok \in BOOLEAN :
        calls[c].n < MaxCalls /\ transactionConnect(c, ok)
  \/ \E c \in Clients, ok \in BOOLEAN : transactionBegin(c, ok)
  \/ \E c \in Clients, ok \in BOOLEAN : transactionCallback(c, ok)
  \/ \E c \in Clients, ok \in BOOLEAN : transactionCommit(c, ok)
  \/ \E c \in Clients, ok \in BOOLEAN : transactionRollback(c, ok)
  \/ \E c \in Clients : transactionRelease(c)

SpecCalls == Init /\ [][NextCalls]_vars

\* Concurrent availability replacements: teacher 1 (user 4) replaces the
\* availability by lists of valid days from both clients at once.
NextSlots ==
  \/ Deliver
  \/ Ready /\ availability_seq < MaxSlots
           /\ \E c \in Clients, slots \in SlotLists :
                 /\ \A i \in DOMAIN slots : slots[i] \in Days
                 /\ UpdateAvailability(c, 4, slots)
  \/ Ready /\ \E c \in Clients : AvailabilityDelete(c)
  \/ Ready /\ \E c \in Clients : AvailabilityInsert(c)
  \/ Ready /\ \E c \in Clients : Commit(c)
  \/ Ready /\ \E c \in Clients : Fail(c)

SpecSlots == Init /\ [][NextSlots]_vars

\* Booking during a pricing replacement: student 2 (Grade 6-8, seeded at
\* 18.00) books subject 1 with teacher 1 while the admin replaces the seeded
\* pricing of subject 1 by tiers at 15.00; a replacement starts only from the
\* seeded pricing.
NextReprice ==
  \/ Deliver
  \/ Ready /\ booking_seq < MaxBookings
           /\ \E duration \in {20, 30, 50, 90} : CreateBooking(2, 1, 1, duration)
  \/ Ready /\ pricing_seq = SeededTiers /\ pricing_tiers = SeedPricing
           /\ \E pricingTiers \in TierLists :
                 /\ \A i \in DOMAIN pricingTiers : pricingTiers[i].pricePerHour = 1500
                 /\ UpdatePricing(1, 1, 1, pricingTiers)
  \/ Ready /\ PricingInsert(1)
  \/ Ready /\ Commit(1)
  \/ Ready /\ Fail(1)

SpecReprice == Init /\ [][NextReprice]_vars

\* The middleware chain: requests with every credential arrive at routes with
\* every guard; the handlers behind the guards are a status update
\* (authenticate only), the subject and user deletes (requireAdmin), the
\* teacher profile update (requireTeacher) and the booking (requireStudent).
NextChain ==
  \/ Ready /\ \E credential \in Credentials, guard \in Guards :
                 /\ guard = "requireStudent" => booking_seq < MaxBookings
                 /\ Receive(credential, guard)
  \/ Ready /\ authenticateRequest
  \/ Ready /\ requireRole
  \/ request.stage # "handler" /\ Deliver
  \/ handlerResponds
  \/ Ready /\ request.stage = "handler" /\ request.guard = "none"
           /\ UpdateBookingStatus(request.user, 1, "cancelled")
  \/ Ready /\ request.stage = "handler" /\ request.guard = "requireAdmin"
           /\ DeleteSubject(request.user, 1)
  \/ Ready /\ request.stage = "handler" /\ request.guard = "requireAdmin"
           /\ edits < MaxEdits
           /\ \E id \in {3, 5} : AdminDeleteUser(request.user, id)
  \/ Ready /\ request.stage = "handler" /\ request.guard = "requireTeacher"
           /\ UpdateTeacherProfile(request.user, "https://meet.example/t")
  \/ Ready /\ request.stage = "handler" /\ request.guard = "requireStudent"
           /\ CreateBooking(request.user, 1, 1, 90)

SpecChain == Init /\ [][NextChain]_vars

\* Students only: students 2 and 3 book teacher 1, submit proofs for stored
\* and missing bookings, and ask for every status on every booking; no admin
\* and no teacher acts.
NextStudents ==
  \/ Deliver
  \/ Ready /\ booking_seq < MaxBookings
           /\ \E u \in {2, 3} : CreateBooking(u, 1, 1, 90)
  \/ Ready /\ \E u \in {2, 3}, b \in 1..(MaxBookings + 1), st \in StatusInputs :
                 UpdateBookingStatus(u, b, st)
  \/ Ready /\ proof_seq < MaxProofs
           /\ \E u \in {2, 3}, b \in 1..(MaxBookings + 1) :
                 SubmitPaymentProof(1, u, b)
  \/ Ready /\ SubmitUpdateBooking(1)
  \/ Ready /\ Commit(1)
  \/ Ready /\ Fail(1)

SpecStudents == Init /\ [][NextStudents]_vars

\* The payment workflow without status updates, on both clients at once:
\* student 2 books teacher 1 and submits proofs for booking 1, and the admin
\* approves and rejects the stored proofs.
NextFlow ==
  \/ Deliver
  \/ Ready /\ booking_seq < MaxBookings /\ CreateBooking(2, 1, 1, 90)
  \/ Ready /\ proof_seq < MaxProofs
           /\ \E c \in Clients : SubmitPaymentProof(c, 2, 1)
  \/ Ready /\ \E c \in Clients : SubmitUpdateBooking(c)
  \/ Ready /\ \E c \in Clients, pr \in DOMAIN payment_proofs,
                 d \in {"approved", "rejected"} : ReviewPayment(c, 1, pr, d)
  \/ Ready /\ \E c \in Clients : ReviewUpdateProof(c)
  \/ Ready /\ \E c \in Clients : ReviewSelect(c)
  \/ Ready /\ \E c \in Clients : ReviewUpdateBooking(c)
  \/ Ready /\ \E c \in Clients : Commit(c)
  \/ Ready /\ \E c \in Clients : Fail(c)

SpecFlow == Init /\ [][NextFlow]_vars

(***************************************************************************)
(* Properties of the payment workflow (checked under Spec)                 *)
(***************************************************************************)
Succeeded(r, op) == r.op = op /\ r.code \in {200, 201}

\* the StudentProfile id of user u, when u has one
ProfileOf(u) == FirstRow(StudentRows(u))

\* C1: a ReviewPayment that reports success leaves the reviewed proof with
\* the decision and its booking with the matching status (approved/confirmed,
\* rejected/pending_payment), both becoming visible in the one step that
\* reports the success; a proof's status never changes in any other step and
\* no booking changes in a step that reports no success.
ReviewLeavesMatchingPair ==
  [][ /\ Succeeded(resp', "ReviewPayment") =>
          /\ resp'.id \in DOMAIN payment_proofs'
          /\ payment_proofs'[resp'.id].status = resp'.arg
          /\ bookings'[payment_proofs'[resp'.id].booking_id].status =
               (IF resp'.arg = "approved" THEN "confirmed" ELSE "pending_payment")
      /\ \A p \in DOMAIN payment_proofs :
            (p \in DOMAIN payment_proofs'
             /\ payment_proofs'[p].status # payment_proofs[p].status) =>
               (Succeeded(resp', "ReviewPayment") /\ resp'.id = p)
      /\ bookings' # bookings => resp'.code \in {200, 201}
    ]_vars

\* C1 witness: a rejection has been reported and the pair is rejected/pending_payment
ReviewRejectedPair ==
  /\ Succeeded(resp, "ReviewPayment")
  /\ resp.arg = "rejected"
  /\ payment_proofs[resp.id].status = "rejected"
  /\ bookings[payment_proofs[resp.id].booking_id].status = "pending_payment"

\* C2: while a SubmitPaymentProof transaction is open its proof row is not
\* stored; when it ends without success the caller gets 500 and neither
\* payment_proofs nor bookings changed; and a proof id that was handed out
\* and is neither stored nor pending in an open transaction never shows up.
SubmitFailureLeavesNothing ==
  [][ /\ \A c \in Clients :
            clients[c].op = "SubmitPaymentProof" =>
               /\ (DOMAIN clients[c].proofIns) \cap (DOMAIN payment_proofs) = {}
               /\ (clients'[c].op = "idle" /\ ~Succeeded(resp', "SubmitPaymentProof")) =>
                     /\ resp'.op = "SubmitPaymentProof" /\ resp'.code = 500
                     /\ payment_proofs' = payment_proofs
                     /\ bookings' = bookings
      /\ \A p \in 1..proof_seq :
            (p \notin DOMAIN payment_proofs
             /\ \A c \in Clients : p \notin DOMAIN clients[c].proofIns) =>
               p \notin DOMAIN payment_proofs'
    ]_vars

\* C2 witness: a submission failed after its INSERT (the proof id is used
\* up), no such proof is stored and the booking is not under review
SubmitRolledBack ==
  /\ resp.op = "SubmitPaymentProof" /\ resp.code = 500
  /\ proof_seq > 0 /\ proof_seq \notin DOMAIN payment_proofs
  /\ bookings[resp.id].status # "payment_under_review"

\* C7: a successful SubmitPaymentProof is by the booking's own student, adds
\* exactly one proof, pending and of that booking, leaves every stored proof
\* as it was and the booking in payment_under_review.
SubmitCreatesPendingProof ==
  [][ Succeeded(resp', "SubmitPaymentProof") =>
        /\ StudentRows(resp'.caller) # {}
        /\ bookings[resp'.id].student_id = ProfileOf(resp'.caller)
        /\ \E p \in (DOMAIN payment_proofs') \ (DOMAIN payment_proofs) :
              /\ DOMAIN payment_proofs' = (DOMAIN payment_proofs) \cup {p}
              /\ payment_proofs'[p] = [booking_id |-> resp'.id, status |-> "pending"]
        /\ \A q \in DOMAIN payment_proofs : payment_proofs'[q] = payment_proofs[q]
        /\ bookings'[resp'.id].status = "payment_under_review"
    ]_vars

\* C7 witness: a second proof was submitted for a booking whose first proof
\* is approved; the first proof is still approved
SubmitAfterApproval ==
  /\ Succeeded(resp, "SubmitPaymentProof")
  /\ bookings[resp.id].status = "payment_under_review"
  /\ \E p, q \in DOMAIN payment_proofs :
        /\ p < q
        /\ payment_proofs[p] = [booking_id |-> resp.id, status |-> "approved"]
        /\ payment_proofs[q] = [booking_id |-> resp.id, status |-> "pending"]

\* C8: a SubmitPaymentProof by a student (role student, with a
\* StudentProfile) naming a booking that does not exist or that belongs to
\* another student is answered 404 in both cases and writes nothing.
SubmitHidesForeignBookings ==
  [][ ( /\ resp'.op = "SubmitPaymentProof"
        /\ resp'.id # 0
        /\ resp'.caller \in DOMAIN users
        /\ users[resp'.caller] = "student"
        /\ StudentRows(resp'.caller) # {}
        /\ \/ resp'.id \notin DOMAIN bookings
           \/ bookings[resp'.id].student_id # ProfileOf(resp'.caller) ) =>
        /\ resp'.code = 404
        /\ UNCHANGED <<db, clients, proof_seq, booking_seq>>
    ]_vars

\* C8 witness: 404 was answered for a booking that exists
SubmitForeignBookingNotFound ==
  /\ resp.op = "SubmitPaymentProof" /\ resp.code = 404
  /\ resp.id \in DOMAIN bookings
  /\ StudentRows(resp.caller) # {}
  /\ bookings[resp.id].student_id # ProfileOf(resp.caller)

(***************************************************************************)
(* Properties of the authorization rules (checked under SpecAuth)          *)
(***************************************************************************)
IsBookingStudent(u, b) == StudentRows(u) # {} /\ bookings[b].student_id \in StudentRows(u)

IsBookingTeacher(u, b) == TeacherRows(u) # {} /\ bookings[b].teacher_id \in TeacherRows(u)

\* the authorization matrix of UpdateBookingStatus
MayDrive(u, b, st) ==
  \/ users[u] = "admin"
  \/ IsBookingStudent(u, b) /\ st = "cancelled"
  \/ IsBookingTeacher(u, b) /\ st \in {"confirmed", "completed"}

\* C3: an UpdateBookingStatus changes a booking only for a caller and a
\* target status that the matrix allows (admin: any; the booking's student:
\* cancelled; the booking's teacher: confirmed, completed); every other
\* authenticated caller asking for one of the five statuses on a stored
\* booking is answered 403 and the bookings stay as they were.
StatusMatrixEnforced ==
  [][ resp'.op = "UpdateBookingStatus" =>
        /\ bookings' # bookings =>
              /\ resp'.caller \in DOMAIN users
              /\ resp'.id \in DOMAIN bookings
              /\ MayDrive(resp'.caller, resp'.id, resp'.arg)
              /\ bookings' = [bookings EXCEPT ![resp'.id].status = resp'.arg]
        /\ ( /\ resp'.caller \in DOMAIN users
             /\ resp'.id \in DOMAIN bookings
             /\ resp'.arg \in BookingStatuses
             /\ ~MayDrive(resp'.caller, resp'.id, resp'.arg) ) =>
              (resp'.code = 403 /\ bookings' = bookings)
    ]_vars

\* C3 witness: the booking's own student asked for confirmed and got 403
StudentConfirmRefused ==
  /\ resp.op = "UpdateBookingStatus" /\ resp.code = 403
  /\ resp.arg = "confirmed"
  /\ resp.id \in DOMAIN bookings
  /\ IsBookingStudent(resp.caller, resp.id)
  /\ bookings[resp.id].status # "confirmed"

\* C9 (as claimed): GetBookings answers an admin with all bookings of the
\* system, and answers 403 only to callers whose role is none of student,
\* teacher, admin.
AdminListsAllBookings ==
  (resp.op = "GetBookings" /\ resp.caller \in DOMAIN users) =>
     /\ users[resp.caller] = "admin" =>
           (resp.code = 200
            /\ {resp.data[i] : i \in DOMAIN resp.data} = DOMAIN bookings)
     /\ resp.code = 403 => users[resp.caller] \notin Roles

\* C10: GetBookingById answers 404 for an id that is not stored; for a stored
\* booking it answers 200 with that booking to an admin and to the holder of
\* the booking's student or teacher profile, and 403 without data to every
\* other authenticated caller.
BookingViewGuarded ==
  (resp.op = "GetBookingById" /\ resp.caller \in DOMAIN users) =>
     IF resp.id \notin DOMAIN bookings
       THEN resp.code = 404 /\ resp.data = <<>>
     ELSE IF \/ users[resp.caller] = "admin"
             \/ IsBookingStudent(resp.caller, resp.id)
             \/ IsBookingTeacher(resp.caller, resp.id)
       THEN resp.code = 200 /\ resp.data = <<resp.id>>
     ELSE resp.code = 403 /\ resp.data = <<>>

\* C10 witness: a student who is not the booking's student was refused
ForeignStudentRefused ==
  /\ resp.op = "GetBookingById" /\ resp.code = 403
  /\ resp.id \in DOMAIN bookings
  /\ users[resp.caller] = "student"
  /\ StudentRows(resp.caller) # {}
  /\ ~IsBookingStudent(resp.caller, resp.id)

(***************************************************************************)
(* Properties of booking creation and pricing (checked under SpecBook)     *)
(***************************************************************************)
\* t is the integer nearest to pricePerHour * duration / 60 (prices in
\* hundredths), a tie going up
IsRounded(t, pricePerHour, duration) ==
  /\ 2 * 6000 * t - 6000 <= 2 * pricePerHour * duration
  /\ 2 * pricePerHour * duration < 2 * 6000 * t + 6000

\* C4: a successful CreateBooking adds one booking whose price_per_hour is
\* the price of the tier for (subject, the calling student's grade_level),
\* whose total_amount is round(price_per_hour * duration / 60) and whose
\* status is pending_payment; the duration is within 30..240.
CreateBookingPricesFromTier ==
  [][ Succeeded(resp', "CreateBooking") =>
        LET subjectId == resp'.data[2]
            duration == resp'.data[3]
            grade == students[ProfileOf(resp'.caller)].grade_level
            row == bookings'[resp'.id]
        IN /\ resp'.id \notin DOMAIN bookings
           /\ DOMAIN bookings' = DOMAIN bookings \cup {resp'.id}
           /\ \A b \in DOMAIN bookings : bookings'[b] = bookings[b]
           /\ duration \in MinDuration..MaxDuration
           /\ TierRows(subjectId, grade) # {}
           /\ row.student_id = ProfileOf(resp'.caller)
           /\ row.subject_id = subjectId
           /\ row.duration = duration
           /\ row.grade_level = grade
           /\ \A k \in TierRows(subjectId, grade) :
                 row.price_per_hour = pricing_tiers[k].price_per_hour
           /\ IsRounded(row.total_amount, row.price_per_hour, duration)
           /\ row.status = "pending_payment"
    ]_vars

\* C4 witness: 90 minutes at 18.00 per hour were booked for 27
BookedNinetyMinutesAtEighteen ==
  /\ Succeeded(resp, "CreateBooking")
  /\ bookings[resp.id].price_per_hour = 1800
  /\ bookings[resp.id].duration = 90
  /\ bookings[resp.id].total_amount = 27
  /\ bookings[resp.id].status = "pending_payment"

\* C5: no step changes the price_per_hour, total_amount or grade_level of a
\* stored booking, whether it replaces the pricing of the subject, changes
\* the student's grade, updates the status, submits a proof or reviews one.
BookingSnapshotFrozen ==
  [][ \A b \in DOMAIN bookings :
        b \in DOMAIN bookings' =>
          /\ bookings'[b].price_per_hour = bookings[b].price_per_hour
          /\ bookings'[b].total_amount = bookings[b].total_amount
          /\ bookings'[b].grade_level = bookings[b].grade_level
    ]_vars

\* C5 witness: a booking with an approved proof whose student has changed
\* grade and whose subject has been repriced since it was made
SnapshotOutlivesChanges ==
  \E b \in DOMAIN bookings :
    /\ students[bookings[b].student_id].grade_level # bookings[b].grade_level
    /\ \A k \in TierRows(bookings[b].subject_id, bookings[b].grade_level) :
          pricing_tiers[k].price_per_hour # bookings[b].price_per_hour
    /\ bookings[b].status = "confirmed"
    /\ \E pr \in DOMAIN payment_proofs :
          payment_proofs[pr].booking_id = b /\ payment_proofs[pr].status = "approved"

\* C6 (as claimed): a CreateBooking by a student with a profile, for a valid
\* duration and a subject with no tier for the student's grade, is answered
\* 404 and stores no booking.
NoTierIsNotFound ==
  ( /\ resp.op = "CreateBooking"
    /\ resp.caller \in DOMAIN users
    /\ users[resp.caller] = "student"
    /\ StudentRows(resp.caller) # {}
    /\ resp.data[3] \in MinDuration..MaxDuration
    /\ TierRows(resp.data[2], students[ProfileOf(resp.caller)].grade_level) = {} ) =>
     (resp.code = 404 /\ resp.id = 0)

(***************************************************************************)
(* Properties of the status update (checked under SpecAuth and SpecFrame)  *)
(***************************************************************************)
\* C11: an UpdateBookingStatus whose status is none of the five defined ones
\* is answered 400 for every authenticated caller and every booking id and
\* changes no booking; the status of every stored booking is always one of
\* the five.
InvalidStatusRejected ==
  [][ /\ ( /\ resp'.op = "UpdateBookingStatus"
           /\ resp'.caller \in DOMAIN users
           /\ resp'.arg \notin BookingStatuses ) =>
             (resp'.code = 400 /\ bookings' = bookings)
      /\ \A b \in DOMAIN bookings' : bookings'[b].status \in BookingStatuses
    ]_vars

\* C11 witness: the admin asked for "archived" on a stored booking and got 400
AdminArchiveRefused ==
  /\ resp.op = "UpdateBookingStatus" /\ resp.code = 400
  /\ resp.arg = "archived"
  /\ resp.caller \in DOMAIN users /\ users[resp.caller] = "admin"
  /\ resp.id \in DOMAIN bookings

\* C12: a successful UpdateBookingStatus writes the status of the one booking
\* it names and nothing else: the other bookings, all payment proofs, the
\* other fields of the booking and every other table stay as they were.
\* (The updated_at column is not part of the model.)
StatusUpdateTouchesOneField ==
  [][ Succeeded(resp', "UpdateBookingStatus") =>
        /\ resp'.id \in DOMAIN bookings
        /\ bookings' = [bookings EXCEPT ![resp'.id].status = resp'.arg]
        /\ payment_proofs' = payment_proofs
        /\ UNCHANGED <<users, students, teachers, subjects, subject_seq,
                       availability, availability_seq, pricing_tiers,
                       pricing_seq>>
    ]_vars

\* C12 witness: a booking was cancelled while its proof stayed pending and
\* another booking kept a different status
CancelledBesideOtherBooking ==
  /\ Succeeded(resp, "UpdateBookingStatus")
  /\ resp.arg = "cancelled"
  /\ \E b \in DOMAIN bookings : b # resp.id /\ bookings[b].status # "cancelled"
  /\ \E pr \in DOMAIN payment_proofs :
        /\ payment_proofs[pr].booking_id = resp.id
        /\ payment_proofs[pr].status = "pending"

(***************************************************************************)
(* Properties of the review guards (checked under Spec)                    *)
(***************************************************************************)
\* C13: a ReviewPayment by an authenticated caller who is not an admin is
\* answered 403, one by an admin with a decision other than approved or
\* rejected is answered 400, and neither opens a transaction or changes a
\* proof or a booking; every review transaction, and so every write of a
\* review, belongs to an admin with a decision of approved or rejected.
ReviewGuardsHold ==
  [][ /\ ( /\ resp'.op = "ReviewPayment"
           /\ resp'.caller \in DOMAIN users
           /\ users[resp'.caller] # "admin" ) =>
             (resp'.code = 403 /\ UNCHANGED <<payment_proofs, bookings,
                                              clients>>)
      /\ ( /\ resp'.op = "ReviewPayment"
           /\ resp'.caller \in DOMAIN users
           /\ users[resp'.caller] = "admin"
           /\ resp'.arg \notin {"approved", "rejected"} ) =>
             (resp'.code = 400 /\ UNCHANGED <<payment_proofs, bookings,
                                              clients>>)
      /\ \A c \in Clients : clients'[c].op = "ReviewPayment" =>
             /\ users[clients'[c].caller] = "admin"
             /\ clients'[c].arg \in {"approved", "rejected"}
      /\ ( /\ resp'.op = "ReviewPayment"
           /\ (payment_proofs' # payment_proofs \/ bookings' # bookings) ) =>
             /\ users[resp'.caller] = "admin"
             /\ resp'.arg \in {"approved", "rejected"}
    ]_vars

\* C13 witness: a student tried to approve a stored pending proof and got 403
StudentReviewRefused ==
  /\ resp.op = "ReviewPayment" /\ resp.code = 403
  /\ users[resp.caller] = "student"
  /\ resp.arg = "approved"
  /\ resp.id \in DOMAIN payment_proofs
  /\ payment_proofs[resp.id].status = "pending"

(***************************************************************************)
(* Properties of concurrent reviews (checked under SpecRace)               *)
(***************************************************************************)
\* C14: when the admin reviews one stored proof from two clients at once,
\* neither call is answered with a conflict (a review answers 200, or 500
\* when a statement fails), each call that reports success leaves the proof
\* and its booking with the pair of its own decision, so the pair of the call
\* applied last remains, and the proof is never approved beside a booking
\* that is not confirmed, nor rejected beside one that is not pending_payment.
ConcurrentReviewsKeepPair ==
  [][ /\ resp'.op = "ReviewPayment" => resp'.code \in {200, 500}
      /\ Succeeded(resp', "ReviewPayment") =>
            /\ payment_proofs'[resp'.id].status = resp'.arg
            /\ bookings'[payment_proofs'[resp'.id].booking_id].status =
                 newBookingStatus(resp'.arg)
      /\ \A pr \in DOMAIN payment_proofs' :
            LET b == bookings'[payment_proofs'[pr].booking_id]
            IN /\ payment_proofs'[pr].status = "approved" => b.status = "confirmed"
               /\ payment_proofs'[pr].status = "rejected" => b.status = "pending_payment"
    ]_vars

\* C14 witness: one review has reported success while the other client's
\* review of the same proof, with the other decision, waits for the row
ReviewSucceededWhileOtherWaits ==
  /\ Succeeded(resp, "ReviewPayment")
  /\ \E c \in Clients :
        /\ clients[c].op = "ReviewPayment" /\ clients[c].pc = "verify"
        /\ clients[c].id = resp.id
        /\ clients[c].arg # resp.arg

(***************************************************************************)
(* Properties of teacher verification (checked under SpecTeach)            *)
(***************************************************************************)
LiveIffApproved(T) ==
  \A t \in DOMAIN T : T[t].is_live <=> (T[t].verification_status = "approved")

\* C15: every teacher profile is live exactly when its verification_status
\* is approved; a step changes a profile's verification_status or is_live
\* only if it is a successful VerifyTeacher of that profile by an admin, and
\* that step sets both fields from the one decision.
LiveOnlyByVerification ==
  [][ /\ LiveIffApproved(teachers) /\ LiveIffApproved(teachers')
      /\ \A t \in DOMAIN teachers :
            ( /\ t \in DOMAIN teachers'
              /\ \/ teachers'[t].verification_status # teachers[t].verification_status
                 \/ teachers'[t].is_live # teachers[t].is_live ) =>
               /\ Succeeded(resp', "VerifyTeacher")
               /\ resp'.id = t
               /\ users[resp'.caller] = "admin"
               /\ teachers'[t].verification_status = resp'.arg
               /\ teachers'[t].is_live = (resp'.arg = "approved")
    ]_vars

\* C15 witness: an approved, live teacher who has set a meeting link and
\* stored availability, beside a profile that is still pending and not live
ApprovedTeacherWithProfile ==
  \E t \in DOMAIN teachers :
    /\ teachers[t].verification_status = "approved" /\ teachers[t].is_live
    /\ teachers[t].meeting_link # ""
    /\ AvailabilityOf(t) # {}
    /\ \E o \in DOMAIN teachers :
          teachers[o].verification_status = "pending" /\ ~teachers[o].is_live

(***************************************************************************)
(* Properties of subjects and pricing (checked under SpecPrice)            *)
(***************************************************************************)
\* C16: no two stored pricing tiers have the same subject and grade_level.
OneTierPerSubjectAndGrade ==
  \A k1, k2 \in DOMAIN pricing_tiers :
    ( /\ pricing_tiers[k1].subject_id = pricing_tiers[k2].subject_id
      /\ pricing_tiers[k1].grade_level = pricing_tiers[k2].grade_level ) => k1 = k2

\* C16 witness: a pricing replacement has been refused at the tier that
\* repeats a grade_level of its list, and subject 1 has one tier per grade
RepeatedGradeRefused ==
  /\ resp.op = "UpdatePricing" /\ resp.code = 500
  /\ resp.id = 1
  /\ resp.data # <<>>
  /\ \A g \in Grades : Cardinality(TierRows(1, g)) = 1

\* C17: when a tier insert of a subject creation or of a pricing replacement
\* fails, the caller is answered with an error and the step leaves subjects
\* and pricing tiers exactly as they were before the request: the new subject
\* is not stored, nor any of its tiers, and the deleted tiers are back.  No
\* subject and no tier changes except in the step that reports the success
\* of the whole request.
SubjectAndPricingAllOrNothing ==
  [][ /\ \A c \in Clients :
            ( /\ clients[c].op \in {"CreateSubject", "UpdatePricing"}
              /\ clients'[c].op = "idle" ) =>
               /\ resp'.op = clients[c].op
               /\ \/ Succeeded(resp', clients[c].op)
                  \/ /\ resp'.code = 500
                     /\ subjects' = subjects
                     /\ pricing_tiers' = pricing_tiers
      /\ (subjects' # subjects \/ pricing_tiers' # pricing_tiers) =>
            \/ Succeeded(resp', "CreateSubject")
            \/ Succeeded(resp', "UpdatePricing")
      /\ ( /\ resp'.op = "CreateSubject" /\ resp'.code = 500 ) =>
            /\ resp'.id \notin DOMAIN subjects'
            /\ \A k \in DOMAIN pricing_tiers' :
                  pricing_tiers'[k].subject_id # resp'.id
    ]_vars

\* C17 witness: a subject creation has failed at a tier insert after the
\* subject row and an earlier tier were inserted, and none of them is stored
SubjectCreationRolledBack ==
  /\ resp.op = "CreateSubject" /\ resp.code = 500
  /\ Len(resp.data) = 1
  /\ resp.id = subject_seq
  /\ resp.id \notin DOMAIN subjects
  /\ \A k \in DOMAIN pricing_tiers : pricing_tiers[k].subject_id # resp.id

(***************************************************************************)
(* Properties of the stored bookings (checked under SpecKeep)              *)
(***************************************************************************)
\* C18: no step removes a booking: every stored booking is still stored
\* after the step, whatever the operation.
BookingsNeverRemoved ==
  [][ \A b \in DOMAIN bookings : b \in DOMAIN bookings' ]_vars

\* C18 witness: the admin's delete of the user who is a booking's student or
\* teacher has been answered 500, and the booking of the deactivated subject
\* is still stored
BookingOutlivesDeleteAttempt ==
  /\ resp.op = "AdminDeleteUser" /\ resp.code = 500
  /\ \E b \in DOMAIN bookings :
        /\ \/ bookings[b].student_id \in StudentRows(resp.id)
           \/ bookings[b].teacher_id \in TeacherRows(resp.id)
        /\ ~subjects[bookings[b].subject_id].is_active

(***************************************************************************)
(* Properties of the review queue (checked under SpecList)                 *)
(***************************************************************************)
\* C19: the pending list answered to an admin holds every stored proof whose
\* status is pending, each once, and no other proof, and a proof uploaded
\* earlier stands before every proof uploaded later.
PendingListOldestFirst ==
  (resp.op = "ListPendingPayments" /\ resp.caller \in DOMAIN users
   /\ users[resp.caller] = "admin") =>
     /\ resp.code = 200
     /\ {resp.data[i] : i \in DOMAIN resp.data} =
          {p \in DOMAIN payment_proofs : payment_proofs[p].status = "pending"}
     /\ \A i, j \in DOMAIN resp.data : i < j => resp.data[i] < resp.data[j]

\* C19 witness: two pending proofs are listed while a reviewed proof is not
TwoPendingListed ==
  /\ resp.op = "ListPendingPayments" /\ resp.code = 200
  /\ Len(resp.data) = 2
  /\ \E p \in DOMAIN payment_proofs : payment_proofs[p].status # "pending"

(***************************************************************************)
(* Properties of users and role profiles (checked under SpecAuth)          *)
(***************************************************************************)
\* C20 (as claimed): no step changes the role of a stored user, and after
\* every step each user with role student has exactly one StudentProfile and
\* each user with role teacher has exactly one TeacherProfile.
RolesFixedWithProfiles ==
  [][ /\ \A u \in DOMAIN users : u \in DOMAIN users' => users'[u] = users[u]
      /\ \A u \in DOMAIN users' :
            /\ users'[u] = "student" =>
                 Cardinality({s \in DOMAIN students' : students'[s].user_id = u}) = 1
            /\ users'[u] = "teacher" =>
                 Cardinality({t \in DOMAIN teachers' : teachers'[t].user_id = u}) = 1
    ]_vars

(***************************************************************************)
(* Properties of reviews of missing proofs (checked under SpecReview)      *)
(***************************************************************************)
\* C21 (as claimed): a ReviewPayment by an admin with a decision of approved
\* or rejected on an id that matches no stored proof is answered 404 and
\* leaves every proof and every booking unchanged.
MissingProofIsNotFound ==
  [][ ( /\ resp'.op = "ReviewPayment" /\ resp = NoResp
        /\ resp'.caller \in DOMAIN users
        /\ users[resp'.caller] = "admin"
        /\ resp'.arg \in {"approved", "rejected"}
        /\ resp'.id \notin DOMAIN payment_proofs ) =>
          (resp'.code = 404 /\ UNCHANGED <<payment_proofs, bookings>>)
    ]_vars

(***************************************************************************)
(* Properties of transaction(callback) (checked under SpecCalls)           *)
(***************************************************************************)
\* C22 (as claimed): in every call of transaction(callback) the acquired
\* client is released at most once, and exactly once when the call has ended;
\* COMMIT is issued only directly after BEGIN and a callback that completed;
\* once BEGIN, the callback or COMMIT has thrown and the catch block has run,
\* ROLLBACK is the last statement issued on the client, and the caller of an
\* ended call receives the error that was caught.
TransactionContract ==
  \A c \in Clients :
    LET t == calls[c]
        issued(q) == \E i \in DOMAIN t.log : t.log[i] = q
    IN /\ t.released <= 1
       /\ (t.pc = "ended" /\ t.acquired) => t.released = 1
       /\ ~t.acquired => (t.released = 0 /\ t.log = <<>>)
       /\ issued("COMMIT") =>
            /\ Len(t.log) >= 2 /\ t.log[1] = "BEGIN" /\ t.log[2] = "COMMIT"
            /\ t.completed
       /\ (t.error # "none" /\ t.pc \in {"finally", "ended"}) =>
            t.log[Len(t.log)] = "ROLLBACK"
       /\ (t.error # "none" /\ t.pc = "ended") => t.outcome = t.error
       /\ (t.error = "none" /\ t.pc = "ended" /\ t.acquired) =>
            t.outcome = "returned"

(***************************************************************************)
(* Properties of status updates and the current status (checked under      *)
(* SpecAuth)                                                               *)
(***************************************************************************)
\* C23: UpdateBookingStatus does not look at the booking's current status:
\* whatever that status is, a request of an admin for any of the five
\* statuses, and a request of the booking's teacher for confirmed or
\* completed, is answered 200 and sets the booking to the requested status.
StatusUpdateIgnoresCurrent ==
  [][ ( /\ resp'.op = "UpdateBookingStatus"
        /\ resp'.caller \in DOMAIN users
        /\ resp'.id \in DOMAIN bookings
        /\ bookings[resp'.id].status \in BookingStatuses
        /\ \/ users[resp'.caller] = "admin" /\ resp'.arg \in BookingStatuses
           \/ /\ users[resp'.caller] # "admin"
              /\ IsBookingTeacher(resp'.caller, resp'.id)
              /\ ~IsBookingStudent(resp'.caller, resp'.id)
              /\ resp'.arg \in {"confirmed", "completed"} ) =>
          /\ resp'.code = 200
          /\ bookings' = [bookings EXCEPT ![resp'.id].status = resp'.arg]
    ]_vars

\* C23 witness: the booking's teacher completed a booking for which no proof
\* was ever submitted
TeacherCompletedUnpaid ==
  /\ resp.op = "UpdateBookingStatus" /\ resp.code = 200
  /\ resp.arg = "completed"
  /\ resp.caller \in DOMAIN users /\ users[resp.caller] = "teacher"
  /\ resp.id \in DOMAIN bookings
  /\ IsBookingTeacher(resp.caller, resp.id)
  /\ bookings[resp.id].status = "completed"
  /\ proof_seq = 0

(***************************************************************************)
(* Properties of repeated reviews (checked under SpecReview)               *)
(***************************************************************************)
\* C24: a ReviewPayment of an admin with a decision of approved or rejected on
\* a stored proof succeeds whatever the current status of the proof and of
\* its booking and whatever the other proofs of the booking: it sets the proof
\* to the decision and the booking to confirmed (approved) or pending_payment
\* (rejected), and changes nothing else.
ReviewIgnoresCurrentStatus ==
  [][ ( /\ resp'.op = "ReviewPayment" /\ resp = NoResp
        /\ resp'.caller \in DOMAIN users
        /\ users[resp'.caller] = "admin"
        /\ resp'.arg \in {"approved", "rejected"}
        /\ resp'.id \in DOMAIN payment_proofs ) =>
          /\ resp'.code = 200
          /\ payment_proofs' =
               [payment_proofs EXCEPT ![resp'.id].status = resp'.arg]
          /\ bookings' =
               [bookings EXCEPT ![payment_proofs[resp'.id].booking_id].status =
                                   newBookingStatus(resp'.arg)]
    ]_vars

\* C24 witness: a proof was rejected while another proof of the same booking
\* is approved, and the booking is back at pending_payment
RejectedBesideApprovedProof ==
  /\ resp.op = "ReviewPayment" /\ resp.code = 200 /\ resp.arg = "rejected"
  /\ resp.id \in DOMAIN payment_proofs
  /\ payment_proofs[resp.id].status = "rejected"
  /\ \E p \in DOMAIN payment_proofs :
        /\ p # resp.id
        /\ payment_proofs[p].booking_id = payment_proofs[resp.id].booking_id
        /\ payment_proofs[p].status = "approved"
  /\ bookings[payment_proofs[resp.id].booking_id].status = "pending_payment"

(***************************************************************************)
(* Properties of availability replacement (checked under SpecSlots)        *)
(***************************************************************************)
\* C25 (as claimed): when an availability replacement ends with success, the
\* stored availability rows of the teacher are exactly the rows inserted from
\* the submitted list; only when another replacement for the same teacher
\* committed while this one ran may they instead be exactly the rows which
\* that one left, never a union or mixture.  When a replacement ends with a
\* failure the stored availability is as it was.
AvailabilityExactlyReplaced ==
  [][ \A c \in Clients :
        ( /\ clients[c].op = "UpdateAvailability"
          /\ clients'[c].op = "idle"
          /\ resp'.op = "UpdateAvailability" ) =>
            LET t == clients[c]
                before == {k \in DOMAIN availability :
                             availability[k].teacher_id = t.id}
                after == {k \in DOMAIN availability' :
                            availability'[k].teacher_id = t.id}
            IN IF resp'.code = 200
                 THEN \/ [k \in after |-> availability'[k]] = t.availIns
                      \/ /\ before # t.availDel
                         /\ [k \in after |-> availability'[k]] =
                              [k \in before |-> availability[k]]
                 ELSE availability' = availability
    ]_vars

(***************************************************************************)
(* Properties of booking during a pricing replacement (checked under       *)
(* SpecReprice)                                                            *)
(***************************************************************************)
\* C26: a valid CreateBooking made while a pricing replacement of its subject
\* is open, when the tiers stored before the replacement (the seeded ones) and
\* the submitted tiers both price the student's grade, is answered 201 and
\* stores the old or the new price_per_hour with the total_amount rounded from
\* that price; the deleted-but-not-yet-inserted state is never what it reads.
BookingSeesOldOrNewTiers ==
  [][ \A c \in Clients :
        ( /\ resp'.op = "CreateBooking" /\ resp = NoResp
          /\ resp'.data[3] \in MinDuration..MaxDuration
          /\ clients[c].op = "UpdatePricing"
          /\ clients[c].id = resp'.data[2] ) =>
            LET t == clients[c]
                duration == resp'.data[3]
                grade == students[ProfileOf(resp'.caller)].grade_level
                old == {SeedPricing[k].price_per_hour : k \in
                          {k \in DOMAIN SeedPricing :
                             /\ SeedPricing[k].subject_id = t.id
                             /\ SeedPricing[k].grade_level = grade}}
                new == {t.tierIns[k].price_per_hour : k \in
                          {k \in DOMAIN t.tierIns :
                             t.tierIns[k].grade_level = grade}}
                       \cup {t.todo[i].pricePerHour : i \in
                               {i \in DOMAIN t.todo : t.todo[i].gradeLevel = grade}}
            IN (old # {} /\ new # {}) =>
                 /\ resp'.code = 201
                 /\ resp'.id \in DOMAIN bookings' \ DOMAIN bookings
                 /\ bookings'[resp'.id].price_per_hour \in old \cup new
                 /\ IsRounded(bookings'[resp'.id].total_amount,
                              bookings'[resp'.id].price_per_hour, duration)
    ]_vars

\* C26 witness: a booking was made at the old 18.00 while the open replacement
\* had already inserted the new tier of the student's grade at 15.00
BookedWhileRepricing ==
  /\ Succeeded(resp, "CreateBooking")
  /\ bookings[resp.id].price_per_hour = 1800
  /\ \E c \in Clients :
        /\ clients[c].op = "UpdatePricing"
        /\ clients[c].id = bookings[resp.id].subject_id
        /\ \E k \in DOMAIN clients[c].tierIns :
              /\ clients[c].tierIns[k].grade_level = bookings[resp.id].grade_level
              /\ clients[c].tierIns[k].price_per_hour = 1500

(***************************************************************************)
(* Properties of the middleware chain (checked under SpecChain)            *)
(***************************************************************************)
\* C27: authenticate and the role guard of a route each either pass the
\* request on or send one response, never both, and nothing runs after a
\* response was sent; a request whose header is missing or not Bearer, whose
\* token is invalid or expired, or whose token names a user that is not
\* stored is answered 401 by authenticate, ends there, and changes nothing;
\* the store changes only in a route handler that was reached through the
\* whole chain.
GuardsPassOrRespond ==
  [][ LET cr == request.credential
          bad == \/ cr.header # "Bearer"
                 \/ cr.token # "valid"
                 \/ cr.userId \notin DOMAIN users
          sent == resp' # NoResp /\ resp = NoResp
          tr == request'.trace
      IN /\ (request.stage = "authenticate" /\ request' # request) =>
              /\ sent # (request'.stage \in {"guard", "handler"})
              /\ sent => request'.stage = "done"
              /\ bad => /\ resp'.code = 401
                        /\ request'.stage = "done"
                        /\ tr = <<Did("authenticate", "401")>>
              /\ UNCHANGED store
         /\ (request.stage = "guard" /\ request' # request) =>
              /\ sent # (request'.stage = "handler")
              /\ sent => (request'.stage = "done" /\ resp'.code = 403)
              /\ UNCHANGED store
         /\ store' # store =>
              /\ request.stage = "handler" /\ ~bad
              /\ \A i \in DOMAIN request.trace : request.trace[i].did = "next"
         /\ \A i \in DOMAIN tr :
              /\ i < Len(tr) => tr[i].did = "next"
              /\ \A j \in DOMAIN tr : tr[i].by = tr[j].by => i = j
    ]_vars

\* C27 witness: a request with a well-signed token of a user who has been
\* deleted was answered 401 by authenticate and went no further
DeletedUserTokenRefused ==
  /\ request.stage = "done"
  /\ request.credential.header = "Bearer"
  /\ request.credential.token = "valid"
  /\ request.credential.userId \notin DOMAIN users
  /\ request.guard = "requireStudent"
  /\ request.trace = <<Did("authenticate", "401")>>
  /\ resp.code = 401

(***************************************************************************)
(* Properties of what students can do (checked under SpecStudents)         *)
(***************************************************************************)
\* C28: as long as only holders of a StudentProfile issue operations
\* (CreateBooking, SubmitPaymentProof, UpdateBookingStatus on their own and on
\* others' bookings), every booking has status pending_payment,
\* payment_under_review or cancelled, never confirmed or completed.
StudentsNeverConfirm ==
  \A b \in DOMAIN bookings :
    bookings[b].status \in {"pending_payment", "payment_under_review", "cancelled"}

\* C28 witness: a student asked for completed on a booking of another student
\* that is under review, and was refused
StudentCompleteRefused ==
  /\ resp.op = "UpdateBookingStatus" /\ resp.code = 403
  /\ resp.arg = "completed"
  /\ resp.id \in DOMAIN bookings
  /\ StudentRows(resp.caller) # {}
  /\ ~IsBookingStudent(resp.caller, resp.id)
  /\ bookings[resp.id].status = "payment_under_review"

(***************************************************************************)
(* Properties of the life of a proof (checked under SpecReview)            *)
(***************************************************************************)
\* C29: a proof enters the store with status pending; a stored proof whose
\* status is approved or rejected is never pending again; no step changes the
\* booking_id of a stored proof.
ProofNeverPendingAgain ==
  [][ \A p \in DOMAIN payment_proofs' :
        IF p \in DOMAIN payment_proofs
          THEN /\ payment_proofs'[p].booking_id = payment_proofs[p].booking_id
               /\ payment_proofs[p].status \in {"approved", "rejected"} =>
                    payment_proofs'[p].status \in {"approved", "rejected"}
          ELSE payment_proofs'[p].status = "pending"
    ]_vars

\* C29 witness: a review with decision pending on an approved proof was
\* refused and the proof is still approved
PendingDecisionRefused ==
  /\ resp.op = "ReviewPayment" /\ resp.code = 400 /\ resp.arg = "pending"
  /\ resp.id \in DOMAIN payment_proofs
  /\ payment_proofs[resp.id].status = "approved"

====
